---- MODULE Spec2Model ----
(***************************************************************************)
(* Brightbox cluster-autoscaler node group (brightboxNodeGroup) running    *)
(* against the Brightbox provider API.                                     *)
(*                                                                         *)
(* The provider keeps two views that the node group reads separately:      *)
(*   - the server record (GetServer): status, DeletedAt, ServerGroups;     *)
(*   - the group listing (GetServerGroup): group.Servers.                  *)
(* The two views are updated by the provider on its own schedule, so every *)
(* provider call of an operation is one step and the provider's own steps  *)
(* interleave with them.  Every provider call may fail.                    *)
(***************************************************************************)
EXTENDS Integers, Sequences, FiniteSets, TLC

\* ---------------------------------------------------------------- bounds
MaxServers == 2      \* server ids the provider can hand out to this group
MaxMaxSize == 3      \* maxSize of the node group under study (description "1:3")
MaxDelta == 2        \* IncreaseSize / DecreaseTargetSize arguments: -MaxDelta..MaxDelta
MaxBatch == 2        \* longest node list handed to DeleteNodes
MaxPolls == 2        \* polls of one wait.Poll: checkTimeout / checkInterval, scaled down from 30

\* ------------------------------------------------------------- constants
fakeMinSize == 1

GroupServerIds == 1..MaxServers
fakeServer == MaxServers + 1          \* "srv-testy": member of another group only
ServerIds == GroupServerIds \cup {fakeServer}

\* error values
Nil == "nil"
None == "none"
ErrPositive == "size increase must be positive"
ErrTooLarge == "size increase too large"
ErrMinSize == "min size reached, no further nodes will be deleted"
ErrNegative == "decrease size must be negative"
ErrDeleteExisting == "attempt to delete existing nodes"
ErrShouldntHaveGotHere == "Shouldn't have got here!"
ErrDifferentGroup == "belongs to a different group"
ErrWaitTimeout == "timed out waiting for the condition"
ErrServerGroup == "ServerGroup: API error"
ErrCreateServer == "CreateServer: API error"
ErrDestroyServer == "DestroyServer: API error"
ErrServer == "Server: API error"
ErrServerNotFound == "Server not found"

VARIABLES
    servers,        \* provider: server id -> [status, member]
    groupServers,   \* provider: ids in group.Servers of this node group
    minSize,        \* brightboxNodeGroup.minSize
    maxSize,        \* brightboxNodeGroup.maxSize
    serverOptions,  \* brightboxNodeGroup.serverOptions: the launch template
    op,             \* operation in progress
    pc,             \* position inside the operation
    delta,          \* argument of IncreaseSize / DecreaseTargetSize
    nodes,          \* argument of DeleteNodes (server ids)
    i,              \* loop index of createServers / DeleteNodes
    size,           \* local size read at the start of the operation
    desiredSize,    \* local desiredSize of IncreaseSize
    polls,          \* polls made by the current wait.Poll
    result,         \* value returned by the operation
    hist,           \* what the operation did to / saw of the provider
    nodeGroups,     \* brightboxCloudProvider.nodeGroups
    nodeMap,        \* brightboxCloudProvider.nodeMap: server id -> group id
    rf,             \* the Refresh call in progress: position and locals
    call            \* a call of a function without side effects: input and output

vars == <<servers, groupServers, minSize, maxSize, serverOptions, op, pc, delta, nodes, i,
          size, desiredSize, polls, result, hist, nodeGroups, nodeMap, rf, call>>

provider == <<servers, groupServers>>
fields == <<minSize, maxSize, serverOptions>>
cloud == <<nodeGroups, nodeMap, rf, call>>

\* -------------------------------------------------------------- history
\* createCalls : CreateServer calls issued by the operation
\* created     : ids of the servers those calls created
\* destroyCalls: batch positions for which DestroyServer was issued, in order
\* destroyed   : ids whose DestroyServer call the provider accepted
\* lookups     : which of the read calls (ServerGroup, Server) the operation issued
\* createdWith : the server options the CreateServer calls were issued with
\* pollSize    : member count seen by the last size poll of IncreaseSize
\* checkSaw    : what the membership check saw of the server at position i
\* gone        : batch positions whose server a poll after the destroy saw
\*               deleted or outside the group
\* secondSize  : second size read of DecreaseTargetSize
EmptyHist ==
    [createCalls |-> 0, created |-> {}, createdWith |-> {}, destroyCalls |-> <<>>, destroyed |-> {},
     lookups |-> {}, pollSize |-> -1, checkSaw |-> None, gone |-> {},
     secondSize |-> -1]

\* ------------------------------------------------------------- provider
Absent == [status |-> "absent", member |-> FALSE]

\* answers of GetServer: the record, an API error, or "not found"
Answers == {"ok", "error", "notfound"}

\* GetServer answers "not found" for an id the provider never handed out, and
\* may do so for a deleted server, whose record it drops at some point
CanAnswer(s, ans) ==
    CASE servers[s].status = "absent" -> ans = "notfound"
      [] servers[s].status = "deleted" -> TRUE
      [] OTHER -> ans # "notfound"

\* server.DeletedAt != nil
DeletedAt(rec) == rec.status = "deleted"

\* what a lookup of the server record shows of the server
Seen(rec) == IF DeletedAt(rec) \/ ~rec.member THEN "gone" ELSE "present"

\* servers that are really in the group: created, member, destroy not accepted
RealMembers == {s \in ServerIds : servers[s].member /\ servers[s].status = "active"}

FreshIds == {s \in DOMAIN servers \ {fakeServer} : servers[s].status = "absent"}

\* the Refresh call frame when no Refresh is running
NoGroup == <<>>

\* pc, groups, g, defaultGroup, nodeGroups, nodeMap: position and locals;
\* extracted: what extractGroupDefaults returned for each group looked at;
\* answers: what GetServer answered for the members of each group looked at;
\* before: b.nodeGroups and b.nodeMap when the call began
IdleFrame ==
    [pc |-> "idle", groups |-> <<>>, g |-> 0, defaultGroup |-> NoGroup,
     nodeGroups |-> <<>>, nodeMap |-> <<>>, extracted |-> <<>>, answers |-> <<>>,
     result |-> None, before |-> <<<<>>, <<>>>>]

NoCall == [op |-> None]

\* the cloud provider as BuildBrightbox leaves it: no node groups, no index
CloudInit ==
    /\ nodeGroups = <<>>
    /\ nodeMap = <<>>
    /\ rf = IdleFrame
    /\ call = NoCall

\* group ids are a prefix and a serial; these two are "grp-y6cai" and
\* "grp-sda44", which no listing of the provider hands out again
fakeNodeGroupMainGroupId == <<"grp", -1>>
fakeNodeGroupId == <<"grp", 0>>

\* the launch template of the node group under study
fakeServerOptions ==
    [Image |-> "img-testy",
     Name |-> <<"auto", "workers", "k8s_fake", "cluster", "local">>,
     ServerType |-> "typ-testy",
     Zone |-> "zon-testy",
     ServerGroups |-> <<fakeNodeGroupMainGroupId, fakeNodeGroupId>>]

\* a node group built for a provider group that has n members
GroupInit(n) ==
    /\ servers = [s \in ServerIds |->
                    IF s = fakeServer THEN [status |-> "active", member |-> FALSE]
                    ELSE IF s <= n THEN [status |-> "active", member |-> TRUE]
                    ELSE Absent]
    /\ groupServers = 1..n
    /\ minSize = fakeMinSize
    /\ maxSize = MaxMaxSize
    /\ serverOptions = fakeServerOptions
    /\ op = None
    /\ pc = "idle"
    /\ delta = 0
    /\ nodes = <<>>
    /\ i = 0
    /\ size = -1
    /\ desiredSize = -1
    /\ polls = 0
    /\ result = None
    /\ hist = EmptyHist

\* a node group is built for a provider group that has at least one member
Init ==
    /\ \E n \in 1..MaxServers : GroupInit(n)
    /\ CloudInit

\* the provider brings its group listing up to date with a created server
ProviderListServer(s) ==
    /\ s \notin groupServers
    /\ servers[s].status = "active"
    /\ servers[s].member
    /\ groupServers' = groupServers \cup {s}
    /\ UNCHANGED <<servers, fields, cloud, op, pc, delta, nodes, i, size, desiredSize, polls, result, hist>>

\* the provider completes an accepted destroy: DeletedAt is set
ProviderDeleteServer(s) ==
    /\ servers[s].status = "deleting"
    /\ servers' = [servers EXCEPT ![s].status = "deleted"]
    /\ UNCHANGED <<groupServers, fields, cloud, op, pc, delta, nodes, i, size, desiredSize, polls, result, hist>>

\* the provider drops a destroyed server from the group listing
ProviderUnlistServer(s) ==
    /\ s \in groupServers
    /\ servers[s].status \in {"deleting", "deleted"}
    /\ groupServers' = groupServers \ {s}
    /\ UNCHANGED <<servers, fields, cloud, op, pc, delta, nodes, i, size, desiredSize, polls, result, hist>>

\* ------------------------------------------------------------ node group
TargetSize_activeOnly ==
    Cardinality({s \in groupServers : servers[s].status = "active"})

\* TargetSize / CurrentSize on a successful lookup: len(group.Servers)
TargetSize == Cardinality(groupServers)

Finish(r) ==
    /\ pc' = "done"
    /\ result' = r

\* wait.Poll after the n-th call of the condition, which returned (ok, err):
\* the condition's error, success, the timeout error, or another poll
Again == "again"

Poll_errorIsSuccess(err, ok, n) ==
    IF err # Nil \/ ok THEN Nil
    ELSE IF n >= MaxPolls THEN ErrWaitTimeout
    ELSE Again

Poll_noTimeout(err, ok, n) ==
    IF err # Nil THEN err
    ELSE IF ok THEN Nil
    ELSE Again

Poll_errorPolledAgain(err, ok, n) ==
    IF ok THEN Nil
    ELSE IF n >= MaxPolls THEN ErrWaitTimeout
    ELSE Again

Poll(err, ok, n) ==
    IF err # Nil THEN err
    ELSE IF ok THEN Nil
    ELSE IF n >= MaxPolls THEN ErrWaitTimeout
    ELSE Again

\* --- IncreaseSize
DeltaNotPositive_zeroAllowed(d) == d < 0

DeltaNotPositive(d) == d <= 0

ExceedsMaxSize_offByOne(desired, max) == desired > max + 1

ExceedsMaxSize(desired, max) == desired > max

SizeReached_oneShort(sz, desired) == sz + 1 >= desired

SizeReached_notCompared(sz, desired) == TRUE

SizeReached(sz, desired) == sz >= desired

createServersNext_errorIgnored(ok, n, amount) ==
    IF n < amount THEN [pc |-> "inc_create", result |-> None]
    ELSE [pc |-> "inc_poll", result |-> None]

createServersNext_failedCreateRepeated(ok, n, amount) ==
    IF ~ok THEN [pc |-> "inc_create", result |-> None]
    ELSE IF n < amount THEN [pc |-> "inc_create", result |-> None]
    ELSE [pc |-> "inc_poll", result |-> None]

\* createServers: what follows the i-th CreateServer call
createServersNext(ok, n, amount) ==
    IF ~ok THEN [pc |-> "done", result |-> ErrCreateServer]
    ELSE IF n < amount THEN [pc |-> "inc_create", result |-> None]
    ELSE [pc |-> "inc_poll", result |-> None]

IncreaseSize(d) ==
    /\ pc = "idle"
    /\ op' = "IncreaseSize"
    /\ delta' = d
    /\ hist' = EmptyHist
    /\ IF DeltaNotPositive(d) THEN Finish(ErrPositive) ELSE pc' = "inc_size" /\ result' = None
    /\ UNCHANGED <<provider, fields, cloud, nodes, i, size, desiredSize, polls>>

IncTargetSize(ok) ==
    /\ pc = "inc_size"
    /\ hist' = [hist EXCEPT !.lookups = @ \cup {"ServerGroup"}]
    /\ IF ~ok
         THEN Finish(ErrServerGroup) /\ UNCHANGED <<size, desiredSize, i>>
         ELSE /\ size' = TargetSize
              /\ desiredSize' = TargetSize + delta
              /\ IF ExceedsMaxSize(TargetSize + delta, maxSize)
                   THEN Finish(ErrTooLarge) /\ UNCHANGED i
                   ELSE pc' = "inc_create" /\ i' = 1 /\ UNCHANGED result
    /\ UNCHANGED <<provider, fields, cloud, op, delta, nodes, polls>>

IncCreateServer(ok) ==
    /\ pc = "inc_create"
    /\ ok => FreshIds # {}
    /\ LET s == CHOOSE x \in FreshIds : \A y \in FreshIds : x <= y
           next == createServersNext(ok, i, delta)
       IN /\ hist' = [hist EXCEPT !.createCalls = @ + 1,
                                  !.createdWith = @ \cup {serverOptions},
                                  !.created = IF ok THEN @ \cup {s} ELSE @]
          /\ servers' = IF ok THEN [servers EXCEPT ![s] = [status |-> "active", member |-> TRUE]]
                        ELSE servers
          /\ pc' = next.pc
          /\ result' = next.result
          /\ i' = IF ok THEN i + 1 ELSE i
          /\ polls' = 0
    /\ UNCHANGED <<groupServers, fields, cloud, op, delta, nodes, size, desiredSize>>

IncPoll(ok) ==
    /\ pc = "inc_poll"
    /\ polls' = polls + 1
    /\ hist' = [hist EXCEPT !.lookups = @ \cup {"ServerGroup"},
                            !.pollSize = IF ok THEN TargetSize ELSE -1]
    /\ LET err == IF ok THEN Nil ELSE ErrServerGroup
           r == Poll(err, ok /\ SizeReached(TargetSize, desiredSize), polls + 1)
       IN IF r = Again THEN UNCHANGED <<pc, result>> ELSE Finish(r)
    /\ UNCHANGED <<provider, fields, cloud, op, delta, nodes, i, size, desiredSize>>

\* --- DeleteNodes
MinSizeReached_strict(sz, min) == sz < min

MinSizeReached(sz, min) == sz <= min

DeleteNodesLoop_sizeCheckedFirst(n, ns) ==
    [pc |-> "del_size", result |-> None]

\* DeleteNodes: the range loop over the node list
DeleteNodesLoop(n, ns) ==
    IF n > Len(ns) THEN [pc |-> "done", result |-> Nil]
    ELSE [pc |-> "del_size", result |-> None]

isMissing_groupIgnored(rec) == DeletedAt(rec)

isMissing_deletingCounts(rec) ==
    IF rec.status \in {"deleting", "deleted"} THEN TRUE
    ELSE ~rec.member

\* isMissing on a server record that GetServer returned
isMissing(rec) ==
    IF DeletedAt(rec) THEN TRUE
    ELSE ~rec.member

\* deleteServerFromGroup: what follows the membership check
checkNext(lookup, missing) ==
    IF lookup # Nil THEN [pc |-> "done", result |-> lookup]
    ELSE IF missing THEN [pc |-> "done", result |-> ErrDifferentGroup]
    ELSE [pc |-> "del_destroy", result |-> None]

destroyNext_errorIgnored(ok) == [pc |-> "del_poll", result |-> None]

\* deleteServerFromGroup: what follows the DestroyServer call
destroyNext(ok) ==
    IF ~ok THEN [pc |-> "done", result |-> ErrDestroyServer]
    ELSE [pc |-> "del_poll", result |-> None]

\* GetServer: the error it returns with the answer
GetServerErr(ans) ==
    CASE ans = "notfound" -> ErrServerNotFound
      [] ans = "error" -> ErrServer
      [] OTHER -> Nil

DeleteNodes(ns) ==
    /\ pc = "idle"
    /\ op' = "DeleteNodes"
    /\ nodes' = ns
    /\ i' = 1
    /\ hist' = EmptyHist
    /\ pc' = DeleteNodesLoop(1, ns).pc
    /\ result' = DeleteNodesLoop(1, ns).result
    /\ UNCHANGED <<provider, fields, cloud, delta, size, desiredSize, polls>>

DelCurrentSize(ok) ==
    /\ pc = "del_size"
    /\ hist' = [hist EXCEPT !.lookups = @ \cup {"ServerGroup"}, !.checkSaw = None]
    /\ IF ~ok THEN Finish(ErrServerGroup) /\ UNCHANGED size
       ELSE /\ size' = TargetSize
            /\ IF MinSizeReached(TargetSize, minSize) THEN Finish(ErrMinSize)
               ELSE pc' = "del_check" /\ UNCHANGED result
    /\ UNCHANGED <<provider, fields, cloud, op, delta, nodes, i, desiredSize, polls>>

DelCheck(ans) ==
    /\ pc = "del_check"
    /\ CanAnswer(nodes[i], ans)
    /\ LET s == nodes[i]
           err == GetServerErr(ans)
           next == checkNext(err, isMissing(servers[s]))
       IN /\ hist' = [hist EXCEPT !.lookups = @ \cup {"Server"},
                                  !.checkSaw = IF err = Nil THEN Seen(servers[s]) ELSE @]
          /\ pc' = next.pc
          /\ result' = next.result
    /\ UNCHANGED <<provider, fields, cloud, op, delta, nodes, i, size, desiredSize, polls>>

DelDestroyServer(ok) ==
    /\ pc = "del_destroy"
    /\ LET s == nodes[i]
           next == destroyNext(ok)
       IN /\ hist' = [hist EXCEPT !.destroyCalls = Append(@, i),
                                  !.destroyed = IF ok THEN @ \cup {s} ELSE @]
          /\ servers' = IF ok /\ servers[s].status = "active"
                        THEN [servers EXCEPT ![s].status = "deleting"]
                        ELSE servers
          /\ pc' = next.pc
          /\ result' = next.result
          /\ polls' = 0
    /\ UNCHANGED <<groupServers, fields, cloud, op, delta, nodes, i, size, desiredSize>>

DelPoll(ans) ==
    /\ pc = "del_poll"
    /\ CanAnswer(nodes[i], ans)
    /\ LET s == nodes[i]
           err == GetServerErr(ans)
           r == Poll(err, err = Nil /\ isMissing(servers[s]), polls + 1)
           loop == DeleteNodesLoop(i + 1, nodes)
       IN /\ hist' = [hist EXCEPT !.lookups = @ \cup {"Server"},
                                  !.gone = IF err = Nil /\ Seen(servers[s]) = "gone"
                                           THEN @ \cup {i} ELSE @]
          /\ IF r = Again THEN polls' = polls + 1 /\ UNCHANGED <<pc, result, i, size>>
             ELSE IF r = Nil
               \* next iteration: size and the poll are locals of the finished one
               THEN /\ pc' = loop.pc /\ result' = loop.result /\ i' = i + 1
                    /\ polls' = 0 /\ size' = -1
             ELSE Finish(r) /\ polls' = polls + 1 /\ UNCHANGED <<i, size>>
    /\ UNCHANGED <<provider, fields, cloud, op, delta, nodes, desiredSize>>

\* --- DecreaseTargetSize
DeltaNotNegative(d) == d >= 0

DecreaseResult_fallsThroughToNil(sz, d, nodesize) ==
    IF sz + d < nodesize THEN ErrDeleteExisting
    ELSE Nil

\* DecreaseTargetSize: the value returned after the two size reads
DecreaseResult(sz, d, nodesize) ==
    IF sz + d < nodesize THEN ErrDeleteExisting
    ELSE ErrShouldntHaveGotHere

DecreaseTargetSize(d) ==
    /\ pc = "idle"
    /\ op' = "DecreaseTargetSize"
    /\ delta' = d
    /\ hist' = EmptyHist
    /\ IF DeltaNotNegative(d) THEN Finish(ErrNegative) ELSE pc' = "dec_size" /\ result' = None
    /\ UNCHANGED <<provider, fields, cloud, nodes, i, size, desiredSize, polls>>

DecTargetSize(ok) ==
    /\ pc = "dec_size"
    /\ hist' = [hist EXCEPT !.lookups = @ \cup {"ServerGroup"}]
    /\ IF ~ok THEN Finish(ErrServerGroup) /\ UNCHANGED size
       ELSE size' = TargetSize /\ pc' = "dec_nodesize" /\ UNCHANGED result
    /\ UNCHANGED <<provider, fields, cloud, op, delta, nodes, i, desiredSize, polls>>

DecCurrentSize(ok) ==
    /\ pc = "dec_nodesize"
    /\ hist' = [hist EXCEPT !.lookups = @ \cup {"ServerGroup"},
                            !.secondSize = IF ok THEN TargetSize ELSE @]
    /\ IF ~ok THEN Finish(ErrServerGroup)
       ELSE Finish(DecreaseResult(size, delta, TargetSize))
    /\ UNCHANGED <<provider, fields, cloud, op, delta, nodes, i, size, desiredSize, polls>>

\* the operation returns to the autoscaler
Return ==
    /\ pc = "done"
    /\ pc' = "idle"
    /\ op' = None
    /\ delta' = 0
    /\ nodes' = <<>>
    /\ i' = 0
    /\ size' = -1
    /\ desiredSize' = -1
    /\ polls' = 0
    /\ result' = None
    /\ hist' = EmptyHist
    /\ UNCHANGED <<provider, fields, cloud>>

\* node lists of DeleteNodes: every sequence of at most MaxBatch server ids
NodeLists == UNION {[1..n -> ServerIds] : n \in 0..MaxBatch}

Next ==
    \/ \E d \in -MaxDelta..MaxDelta : IncreaseSize(d)
    \/ \E ok \in BOOLEAN : IncTargetSize(ok)
    \/ \E ok \in BOOLEAN : IncCreateServer(ok)
    \/ \E ok \in BOOLEAN : IncPoll(ok)
    \/ \E ns \in NodeLists : DeleteNodes(ns)
    \/ \E ok \in BOOLEAN : DelCurrentSize(ok)
    \/ \E ans \in Answers : DelCheck(ans)
    \/ \E ok \in BOOLEAN : DelDestroyServer(ok)
    \/ \E ans \in Answers : DelPoll(ans)
    \/ \E d \in -MaxDelta..MaxDelta : DecreaseTargetSize(d)
    \/ \E ok \in BOOLEAN : DecTargetSize(ok)
    \/ \E ok \in BOOLEAN : DecCurrentSize(ok)
    \/ Return
    \/ \E s \in ServerIds : ProviderListServer(s)
    \/ \E s \in ServerIds : ProviderDeleteServer(s)
    \/ \E s \in ServerIds : ProviderUnlistServer(s)

Spec == Init /\ [][Next]_vars

\* the provider answers every call: an operation that has been started
\* takes its next step, whatever the answer
FairSpec ==
    /\ Spec
    /\ WF_vars(\/ \E ok \in BOOLEAN : IncTargetSize(ok)
               \/ \E ok \in BOOLEAN : IncCreateServer(ok)
               \/ \E ok \in BOOLEAN : IncPoll(ok)
               \/ \E ok \in BOOLEAN : DelCurrentSize(ok)
               \/ \E ans \in Answers : DelCheck(ans)
               \/ \E ok \in BOOLEAN : DelDestroyServer(ok)
               \/ \E ans \in Answers : DelPoll(ans)
               \/ \E ok \in BOOLEAN : DecTargetSize(ok)
               \/ \E ok \in BOOLEAN : DecCurrentSize(ok))

\* ======================================================== cloud provider
\* brightboxCloudProvider: discovery of the node groups (Refresh) and the
\* lookups served from what the last Refresh stored.

\* ---------------------------------------------------------------- bounds
MaxGroups == 2       \* provider groups in one answer of GetServerGroups
MaxMembers == 2      \* members scanned by one consensus extraction
MaxDescLen == 3      \* characters of a group description

\* ------------------------------------------------------------- text
\* a text is the sequence of its characters
Texts == UNION {[1..n -> {"1", "2", "-", ":", "x"}] : n \in 0..MaxDescLen}

ErrSyntax == "strconv.Atoi: invalid syntax"

\* strings.Split(s, sep): the fields between the separators
RECURSIVE Split(_, _)
Split(s, sep) ==
    IF \A k \in DOMAIN s : s[k] # sep THEN <<s>>
    ELSE LET k == CHOOSE j \in DOMAIN s : s[j] = sep /\ \A m \in 1..(j - 1) : s[m] # sep
         IN <<SubSeq(s, 1, k - 1)>> \o Split(SubSeq(s, k + 1, Len(s)), sep)

Digit(c) ==
    CASE c = "0" -> 0 [] c = "1" -> 1 [] c = "2" -> 2 [] c = "3" -> 3 [] c = "4" -> 4
      [] c = "5" -> 5 [] c = "6" -> 6 [] c = "7" -> 7 [] c = "8" -> 8 [] c = "9" -> 9
      [] OTHER -> -1

RECURSIVE Digits(_)
Digits(f) ==
    IF f = <<>> THEN 0
    ELSE 10 * Digits(SubSeq(f, 1, Len(f) - 1)) + Digit(f[Len(f)])

\* strconv.Atoi: an optional sign and at least one decimal digit
Atoi(f) ==
    LET signed == Len(f) > 0 /\ f[1] \in {"+", "-"}
        digits == IF signed THEN Tail(f) ELSE f
    IN IF Len(digits) > 0 /\ \A k \in DOMAIN digits : Digit(digits[k]) >= 0
       THEN [value |-> IF signed /\ f[1] = "-" THEN 0 - Digits(digits) ELSE Digits(digits),
             err |-> Nil]
       ELSE [value |-> 0, err |-> ErrSyntax]

\* names are kept as their dot-separated labels
fakeClusterName == <<"k8s-fake", "cluster", "local">>

\* strings.HasSuffix(name, "." + clusterName)
HasClusterSuffix(name, clusterName) ==
    /\ Len(name) > Len(clusterName)
    /\ SubSeq(name, Len(name) - Len(clusterName) + 1, Len(name)) = clusterName

defaultServerName(name) == <<"auto">> \o name

\* ------------------------------------------------------- node group build
makeNodeGroupFromApiDetails_boundsSwapped(id, name, description, defaultSize, defaultServerTypeId, defaultImageId, defaultZoneId, defaultMainGroupId) ==
    LET sizes == Split(description, ":")
        first == IF Len(sizes) = 2 THEN Atoi(sizes[1]) ELSE [value |-> 0, err |-> ErrSyntax]
        second == IF Len(sizes) = 2 THEN Atoi(sizes[2]) ELSE [value |-> 0, err |-> ErrSyntax]
    IN [id |-> id,
        minSize |-> IF second.err = Nil THEN second.value ELSE defaultSize,
        maxSize |-> IF first.err = Nil THEN first.value ELSE defaultSize,
        serverOptions |-> [Image |-> defaultImageId, Name |-> name,
                           ServerType |-> defaultServerTypeId, Zone |-> defaultZoneId,
                           ServerGroups |-> <<defaultMainGroupId, id>>]]

makeNodeGroupFromApiDetails_ownGroupOnly(id, name, description, defaultSize, defaultServerTypeId, defaultImageId, defaultZoneId, defaultMainGroupId) ==
    LET sizes == Split(description, ":")
        first == IF Len(sizes) = 2 THEN Atoi(sizes[1]) ELSE [value |-> 0, err |-> ErrSyntax]
        second == IF Len(sizes) = 2 THEN Atoi(sizes[2]) ELSE [value |-> 0, err |-> ErrSyntax]
    IN [id |-> id,
        minSize |-> IF first.err = Nil THEN first.value ELSE defaultSize,
        maxSize |-> IF second.err = Nil THEN second.value ELSE defaultSize,
        serverOptions |-> [Image |-> defaultImageId, Name |-> name,
                           ServerType |-> defaultServerTypeId, Zone |-> defaultZoneId,
                           ServerGroups |-> <<id>>]]

\* makeNodeGroupFromApiDetails: both bounds start at the member count; a
\* description of exactly two fields overwrites each bound whose field is
\* an integer (the user data of the server options is left out)
makeNodeGroupFromApiDetails(id, name, description, defaultSize, defaultServerTypeId, defaultImageId, defaultZoneId, defaultMainGroupId) ==
    LET sizes == Split(description, ":")
        first == IF Len(sizes) = 2 THEN Atoi(sizes[1]) ELSE [value |-> 0, err |-> ErrSyntax]
        second == IF Len(sizes) = 2 THEN Atoi(sizes[2]) ELSE [value |-> 0, err |-> ErrSyntax]
    IN [id |-> id,
        minSize |-> IF first.err = Nil THEN first.value ELSE defaultSize,
        maxSize |-> IF second.err = Nil THEN second.value ELSE defaultSize,
        serverOptions |-> [Image |-> defaultImageId, Name |-> name,
                           ServerType |-> defaultServerTypeId, Zone |-> defaultZoneId,
                           ServerGroups |-> <<defaultMainGroupId, id>>]]

\* getSizesFromDescription: the bounds a description stands for, as
\* (maxSize, minSize): two integers a:b with a < b, and equal bounds for
\* every other description
getSizesFromDescription(description) ==
    LET sizes == Split(description, ":")
        parsed == /\ Len(sizes) = 2
                  /\ Atoi(sizes[1]).err = Nil
                  /\ Atoi(sizes[2]).err = Nil
                  /\ Atoi(sizes[1]).value < Atoi(sizes[2]).value
    IN IF parsed THEN [maxSize |-> Atoi(sizes[2]).value, minSize |-> Atoi(sizes[1]).value]
       ELSE [maxSize |-> 0, minSize |-> 0]

\* -------------------------------------------------- consensus extraction
Available == "available"
Deprecated == "deprecated"
Unavailable == "unavailable"
zoneSentinel == "dummyValue"

ErrNoServerType == "Unable to determine Server Type details from Group"
ErrNoImage == "Unable to determine Image details from Group"
ErrNoZone == "Unable to determine Zone details from Group"

ImageIds == {"img-a", "img-b"}
TypeIds == {"typ-a", "typ-b"}
ZoneIds == {"zon-a", "zon-b"}

\* idWithStatus
Details(ids) == [id : ids, status : {Available, Deprecated, Unavailable}]
NoDetails == [id |-> "", status |-> ""]

\* answers of GetServer to the extraction: the server record or an error
ServerAnswers ==
    [err : {Nil}, Image : Details(ImageIds), ServerType : Details(TypeIds), Zone : ZoneIds]
        \cup {[err |-> ErrServer], [err |-> ErrServerNotFound]}

checkZoneForChange_lastZoneWins(zoneID, newZoneID, sentinel) == newZoneID

\* checkZoneForChange: the zone kept after a member's zone was compared
checkZoneForChange(zoneID, newZoneID, sentinel) ==
    IF zoneID = newZoneID \/ zoneID = sentinel THEN newZoneID
    ELSE ""

checkForChange_deprecatedIgnored(current, newDetails) ==
    IF newDetails.status = Available /\ (current.id = "" \/ current.status = Deprecated)
    THEN newDetails
    ELSE current

checkForChange_unavailableSelected(current, newDetails) ==
    IF current.id = "" THEN newDetails ELSE current

checkForChange_laterAvailableWins(current, newDetails) ==
    IF newDetails.status = Available THEN newDetails
    ELSE IF newDetails.status = Deprecated /\ current.id = "" THEN newDetails
    ELSE current

checkForChange_newestWins(current, newDetails) ==
    IF newDetails.status \in {Available, Deprecated} THEN newDetails ELSE current

\* checkForChange: the details kept after a member's details were compared
checkForChange(current, newDetails) ==
    IF newDetails = current THEN current
    ELSE IF newDetails.status = Available
      THEN IF current.id = "" \/ current.status = Deprecated THEN newDetails ELSE current
    ELSE IF newDetails.status = Deprecated
      THEN IF current.id = "" THEN newDetails ELSE current
    ELSE current

\* extractGroupDefaults: the locals before the first member is looked up
ScanStart ==
    [serverType |-> NoDetails, image |-> NoDetails, zoneID |-> zoneSentinel, err |-> Nil]

\* extractGroupDefaults: one pass of the loop, on the answer of GetServer
ScanServer(acc, ans) ==
    IF ans.err # Nil THEN [acc EXCEPT !.err = ans.err]
    ELSE [serverType |-> checkForChange(acc.serverType, ans.ServerType),
          image |-> checkForChange(acc.image, ans.Image),
          zoneID |-> checkZoneForChange(acc.zoneID, ans.Zone, zoneSentinel),
          err |-> Nil]

\* extractGroupDefaults: the loop, which stops at the first failed lookup
RECURSIVE Scan(_, _)
Scan(acc, answers) ==
    IF answers = <<>> \/ acc.err # Nil THEN acc
    ELSE Scan(ScanServer(acc, Head(answers)), Tail(answers))

Failed(err) == [serverType |-> "", image |-> "", zone |-> "", err |-> err]

\* extractGroupDefaults: what is returned after the loop
ScanResult(acc) ==
    IF acc.err # Nil THEN Failed(acc.err)
    ELSE IF acc.serverType.id = "" THEN Failed(ErrNoServerType)
    ELSE IF acc.image.id = "" THEN Failed(ErrNoImage)
    ELSE IF acc.zoneID = zoneSentinel THEN Failed(ErrNoZone)
    ELSE [serverType |-> acc.serverType.id, image |-> acc.image.id,
          zone |-> acc.zoneID, err |-> Nil]

extractGroupDefaults(answers) == ScanResult(Scan(ScanStart, answers))

\* ------------------------------------------------------------- Refresh
ErrServerGroups == "ServerGroups: API error"

\* provider groups: ids are <<"grp", n>>, n the position in the listing
GroupId(n) == <<"grp", n>>

\* group.Servers: the ids of the members, in the order of the listing
MemberLists == {<<>>, <<1>>, <<1, 2>>}

\* the groups a listing of the fake provider is made of; the descriptions
\* are "1:2", "2:2", "2:1", "1:x"
fakeGroups ==
    [Name : {fakeClusterName, <<"workers">> \o fakeClusterName, <<"default">>},
     Description : {<<"1", ":", "2">>, <<"2", ":", "2">>, <<"2", ":", "1">>,
                    <<"1", ":", "x">>},
     Servers : MemberLists]

\* the answer of GetServerGroups that lists the given groups in this order
Listing(a) ==
    [k \in DOMAIN a |-> [Id |-> GroupId(k), Name |-> a[k].Name,
                         Description |-> a[k].Description, Servers |-> a[k].Servers]]

\* fetchDefaultGroup: the id of the first group named as the cluster, or ""
fetchDefaultGroup(groups, clusterName) ==
    IF \E k \in DOMAIN groups : groups[k].Name = clusterName
    THEN groups[CHOOSE k \in DOMAIN groups :
                    /\ groups[k].Name = clusterName
                    /\ \A m \in 1..(k - 1) : groups[m].Name # clusterName].Id
    ELSE NoGroup

\* entry of rf.extracted for a group the switch of Refresh passed over
Skipped == [serverType |-> "", image |-> "", zone |-> "", err |-> None]

RefreshCase_fixedSizeKept(group) ==
    IF ~HasClusterSuffix(group.Name, fakeClusterName) THEN "name doesn't match suffix"
    ELSE IF Len(group.Servers) < 1 THEN "no members"
    ELSE "default"

RefreshCase_suffixIgnored(group) ==
    LET sizes == getSizesFromDescription(group.Description)
    IN IF Len(group.Servers) < 1 THEN "no members"
       ELSE IF sizes.maxSize = sizes.minSize THEN "fixed size"
       ELSE "default"

\* Refresh: the switch over a group of the listing
RefreshCase(group) ==
    LET sizes == getSizesFromDescription(group.Description)
    IN IF ~HasClusterSuffix(group.Name, fakeClusterName) THEN "name doesn't match suffix"
       ELSE IF Len(group.Servers) < 1 THEN "no members"
       ELSE IF sizes.maxSize = sizes.minSize THEN "fixed size"
       ELSE "default"

\* Refresh: nodeMap after the members of the group were entered
MapServers(map, group) ==
    [s \in DOMAIN map \cup {group.Servers[k] : k \in DOMAIN group.Servers} |->
        IF \E k \in DOMAIN group.Servers : group.Servers[k] = s THEN group.Id ELSE map[s]]

\* Refresh: what follows the body of the loop for the g-th group
RefreshLoop(g, groups) == IF g < Len(groups) THEN "loop" ELSE "set nodeGroups"

OnError_emptied(stored, built) == <<>>

OnError_builtSoFarStored(stored, built) == built

\* Refresh: a field of the provider after a return with an error, which
\* comes before the assignments to b.nodeGroups and b.nodeMap
OnError(stored, built) == stored

FreshMap_oldEntriesKept(old) == old

\* Refresh: nodeMap := make(map[string]string)
FreshMap(old) == <<>>

\* Refresh, first step: GetServerGroups, which lists some of the provided
\* groups or fails
RefreshGetServerGroups(provided) ==
    /\ rf.pc = "idle"
    /\ call.op = None
    /\ \E ok \in BOOLEAN, n \in 0..MaxGroups :
          \E a \in [1..n -> provided] :
            LET groups == Listing(a)
            IN IF ~ok
               THEN /\ rf' = [rf EXCEPT !.pc = "done", !.result = ErrServerGroups,
                                        !.before = <<nodeGroups, nodeMap>>]
                    /\ nodeGroups' = OnError(nodeGroups, rf.nodeGroups)
                    /\ nodeMap' = OnError(nodeMap, rf.nodeMap)
               ELSE /\ rf' = [rf EXCEPT !.pc = RefreshLoop(0, groups),
                                        !.groups = groups,
                                        !.g = 1,
                                        !.nodeMap = FreshMap(nodeMap),
                                        !.defaultGroup =
                                            fetchDefaultGroup(groups, fakeClusterName),
                                        !.before = <<nodeGroups, nodeMap>>]
                    /\ UNCHANGED <<nodeGroups, nodeMap>>
    /\ UNCHANGED <<provider, fields, call,
                   op, pc, delta, nodes, i, size, desiredSize, polls, result, hist>>

\* Refresh, the body of the loop: the answers of GetServer to the lookups of
\* extractGroupDefaults, one per member, are drawn from serverAnswers
RefreshGroup(serverAnswers) ==
    /\ rf.pc = "loop"
    /\ LET group == rf.groups[rf.g]
           eligible == RefreshCase(group) = "default"
           lookups == IF eligible THEN Len(group.Servers) ELSE 0
       IN \E answers \in [1..lookups -> serverAnswers] :
            LET defaults == extractGroupDefaults(answers)
                newNodeGroup == makeNodeGroupFromApiDetails(
                                    group.Id, defaultServerName(group.Name),
                                    group.Description, Len(group.Servers),
                                    defaults.serverType, defaults.image, defaults.zone,
                                    rf.defaultGroup)
            IN IF ~eligible
                 THEN /\ rf' = [rf EXCEPT !.pc = RefreshLoop(rf.g, rf.groups),
                                          !.g = @ + 1,
                                          !.extracted = Append(@, Skipped),
                                          !.answers = Append(@, answers)]
                      /\ UNCHANGED <<nodeGroups, nodeMap>>
               ELSE IF defaults.err # Nil
                 THEN /\ rf' = [rf EXCEPT !.pc = "done",
                                          !.result = defaults.err,
                                          !.extracted = Append(@, defaults),
                                          !.answers = Append(@, answers)]
                      /\ nodeGroups' = OnError(nodeGroups, rf.nodeGroups)
                      /\ nodeMap' = OnError(nodeMap, rf.nodeMap)
               ELSE /\ rf' = [rf EXCEPT !.pc = RefreshLoop(rf.g, rf.groups),
                                        !.g = @ + 1,
                                        !.extracted = Append(@, defaults),
                                        !.answers = Append(@, answers),
                                        !.nodeMap = MapServers(@, group),
                                        !.nodeGroups = Append(@, newNodeGroup)]
                    /\ UNCHANGED <<nodeGroups, nodeMap>>
    /\ UNCHANGED <<provider, fields, call,
                   op, pc, delta, nodes, i, size, desiredSize, polls, result, hist>>

\* Refresh: b.nodeGroups = nodeGroups
RefreshSetNodeGroups ==
    /\ rf.pc = "set nodeGroups"
    /\ nodeGroups' = rf.nodeGroups
    /\ rf' = [rf EXCEPT !.pc = "set nodeMap"]
    /\ UNCHANGED <<provider, fields, nodeMap, call,
                   op, pc, delta, nodes, i, size, desiredSize, polls, result, hist>>

\* Refresh: b.nodeMap = nodeMap; return nil
RefreshSetNodeMap ==
    /\ rf.pc = "set nodeMap"
    /\ nodeMap' = rf.nodeMap
    /\ rf' = [rf EXCEPT !.pc = "done", !.result = Nil]
    /\ UNCHANGED <<provider, fields, nodeGroups, call,
                   op, pc, delta, nodes, i, size, desiredSize, polls, result, hist>>

\* Refresh returns to the autoscaler
RefreshReturn ==
    /\ rf.pc = "done"
    /\ rf' = IdleFrame
    /\ UNCHANGED <<provider, fields, nodeGroups, nodeMap, call,
                   op, pc, delta, nodes, i, size, desiredSize, polls, result, hist>>

\* server records the members of the fake groups answer with
fakeServerRecords ==
    {r \in [err : {Nil}, Image : [id : ImageIds, status : {Available}],
            ServerType : [id : TypeIds, status : {Available}], Zone : {"zon-a"}] :
        r.Image.id = "img-a" \/ r.ServerType.id = "typ-a"}

fakeServerAnswers == fakeServerRecords \cup {[err |-> ErrServer]}

\* one Refresh of a cloud provider that BuildBrightbox has just built
RefreshInit ==
    /\ GroupInit(fakeMinSize)
    /\ CloudInit

RefreshNext ==
    \/ RefreshGetServerGroups(fakeGroups)
    \/ RefreshGroup(fakeServerAnswers)
    \/ RefreshSetNodeGroups
    \/ RefreshSetNodeMap

RefreshSpec == RefreshInit /\ [][RefreshNext]_vars

\* what a lookup returns for "no node group" (nil)
NoNodeGroup == [id |-> NoGroup]

\* ------------------------------------------- lookups between refreshes
findNodeGroup_firstGroup(groupID) ==
    IF nodeGroups # <<>> THEN nodeGroups[1] ELSE NoNodeGroup

\* findNodeGroup: the first node group with the id, or nil
findNodeGroup(groupID) ==
    IF \E k \in DOMAIN nodeGroups : nodeGroups[k].id = groupID
    THEN nodeGroups[CHOOSE k \in DOMAIN nodeGroups :
                        /\ nodeGroups[k].id = groupID
                        /\ \A m \in 1..(k - 1) : nodeGroups[m].id # groupID]
    ELSE NoNodeGroup

\* NodeGroupForNode for the node of server s
NodeGroupForNode(s) ==
    /\ rf.pc = "idle"
    /\ call.op = None
    /\ call' = [op |-> "NodeGroupForNode", node |-> s,
                out |-> IF s \in DOMAIN nodeMap THEN findNodeGroup(nodeMap[s])
                        ELSE NoNodeGroup,
                err |-> Nil]
    /\ UNCHANGED <<provider, fields, nodeGroups, nodeMap, rf,
                   op, pc, delta, nodes, i, size, desiredSize, polls, result, hist>>

\* the lookup returns to the autoscaler
CallReturn ==
    /\ call.op = "NodeGroupForNode"
    /\ call' = NoCall
    /\ UNCHANGED <<provider, fields, nodeGroups, nodeMap, rf,
                   op, pc, delta, nodes, i, size, desiredSize, polls, result, hist>>

\* the autoscaler's loop: Refresh, then lookups, again and again, while the
\* provider's groups change between the cycles
cycleGroups ==
    [Name : {<<"workers">> \o fakeClusterName},
     Description : {<<"1", ":", "2">>, <<"2", ":", "2">>},
     Servers : MemberLists]

cycleServerAnswers ==
    {[err |-> Nil, Image |-> [id |-> "img-a", status |-> Available],
      ServerType |-> [id |-> "typ-a", status |-> Available], Zone |-> "zon-a"],
     [err |-> ErrServer]}

CycleNext ==
    \/ RefreshGetServerGroups(cycleGroups)
    \/ RefreshGroup(cycleServerAnswers)
    \/ RefreshSetNodeGroups
    \/ RefreshSetNodeMap
    \/ RefreshReturn
    \/ \E s \in ServerIds : NodeGroupForNode(s)
    \/ CallReturn

CycleSpec == RefreshInit /\ [][CycleNext]_vars

\* ------------------------------------ scaling up a discovered node group
\* the members the listing of the last Refresh gives the group with the id
ListedMembers(id) ==
    UNION {{rf.groups[j].Servers[m] : m \in DOMAIN rf.groups[j].Servers} :
              j \in {x \in DOMAIN rf.groups : rf.groups[x].Id = id}}

\* the autoscaler takes the k-th node group of NodeGroups() to work on; the
\* provider's view of that group is what the listing of the Refresh showed
SelectNodeGroup(k) ==
    /\ rf.pc = "done"
    /\ rf.result = Nil
    /\ pc = "idle"
    /\ k \in DOMAIN nodeGroups
    /\ minSize' = nodeGroups[k].minSize
    /\ maxSize' = nodeGroups[k].maxSize
    /\ serverOptions' = nodeGroups[k].serverOptions
    /\ groupServers' = ListedMembers(nodeGroups[k].id)
    /\ servers' = [s \in ServerIds |->
                     IF s \in ListedMembers(nodeGroups[k].id)
                     THEN [status |-> "active", member |-> TRUE]
                     ELSE IF s = fakeServer THEN [status |-> "active", member |-> FALSE]
                     ELSE Absent]
    /\ UNCHANGED <<cloud, op, pc, delta, nodes, i, size, desiredSize, polls, result, hist>>

\* a default group, worker groups with one member or none
templateGroups ==
    [Name : {fakeClusterName, <<"workers">> \o fakeClusterName},
     Description : {<<"1", ":", "2">>},
     Servers : {<<>>, <<1>>}]

templateServerAnswers ==
    {[err |-> Nil, Image |-> [id |-> "img-a", status |-> Available],
      ServerType |-> [id |-> "typ-a", status |-> Available], Zone |-> "zon-a"],
     [err |-> Nil, Image |-> [id |-> "img-b", status |-> Deprecated],
      ServerType |-> [id |-> "typ-b", status |-> Available], Zone |-> "zon-b"],
     [err |-> ErrServer]}

\* one Refresh, then IncreaseSize calls on the node groups it stored
TemplateNext ==
    \/ RefreshGetServerGroups(templateGroups)
    \/ RefreshGroup(templateServerAnswers)
    \/ RefreshSetNodeGroups
    \/ RefreshSetNodeMap
    \/ \E k \in 1..MaxGroups : SelectNodeGroup(k)
    \/ \E d \in -MaxDelta..MaxDelta : IncreaseSize(d)
    \/ \E ok \in BOOLEAN : IncTargetSize(ok)
    \/ \E ok \in BOOLEAN : IncCreateServer(ok)
    \/ \E ok \in BOOLEAN : IncPoll(ok)
    \/ \E s \in ServerIds : ProviderListServer(s)
    \/ Return

TemplateSpec == RefreshInit /\ [][TemplateNext]_vars

\* ------------------------------------- makeNodeGroupFromApiDetails alone
\* a call of makeNodeGroupFromApiDetails for a description and a member count
ParseInit ==
    /\ GroupInit(fakeMinSize)
    /\ nodeGroups = <<>>
    /\ nodeMap = <<>>
    /\ rf = IdleFrame
    /\ call \in [op : {"makeNodeGroupFromApiDetails"}, description : Texts,
                 defaultSize : 0..MaxMembers, out : {NoNodeGroup}]

MakeNodeGroup ==
    /\ call.op = "makeNodeGroupFromApiDetails"
    /\ call.out = NoNodeGroup
    /\ call' = [call EXCEPT !.out = makeNodeGroupFromApiDetails(
                                        GroupId(1),
                                        defaultServerName(<<"workers">> \o fakeClusterName),
                                        call.description, call.defaultSize,
                                        "typ-a", "img-a", "zon-a", NoGroup)]
    /\ UNCHANGED <<provider, fields, nodeGroups, nodeMap, rf,
                   op, pc, delta, nodes, i, size, desiredSize, polls, result, hist>>

ParseNext == MakeNodeGroup

ParseSpec == ParseInit /\ [][ParseNext]_vars

\* ---------------------------------------------- extractGroupDefaults alone
\* the answers of GetServer to the lookups of one extraction, member by member
AnswerLists == UNION {[1..n -> ServerAnswers] : n \in 0..MaxMembers}

NoDefaults == [serverType |-> "", image |-> "", zone |-> "", err |-> None]

ExtractInit ==
    /\ GroupInit(fakeMinSize)
    /\ nodeGroups = <<>>
    /\ nodeMap = <<>>
    /\ rf = IdleFrame
    /\ call \in [op : {"extractGroupDefaults"}, answers : AnswerLists, out : {NoDefaults}]

ExtractGroupDefaults ==
    /\ call.op = "extractGroupDefaults"
    /\ call.out = NoDefaults
    /\ call' = [call EXCEPT !.out = extractGroupDefaults(call.answers)]
    /\ UNCHANGED <<provider, fields, nodeGroups, nodeMap, rf,
                   op, pc, delta, nodes, i, size, desiredSize, polls, result, hist>>

ExtractNext == ExtractGroupDefaults

ExtractSpec == ExtractInit /\ [][ExtractNext]_vars

\* ------------------------------------- the scan of extractGroupDefaults
\* the loop of extractGroupDefaults member by member, over longer member
\* lists whose servers differ in zone and in the status of their image
MaxScan == 3         \* members scanned, one step each

ScanInit ==
    /\ GroupInit(fakeMinSize)
    /\ nodeGroups = <<>>
    /\ nodeMap = <<>>
    /\ rf = IdleFrame
    /\ LET scanServerAnswers ==
               [err : {Nil}, Image : [id : {"img-a"}, status : {Available, Unavailable}],
                ServerType : [id : {"typ-a"}, status : {Available}], Zone : ZoneIds]
                   \cup {[err |-> ErrServer]}
       IN call \in [op : {"scan"},
                    answers : UNION {[1..n -> scanServerAnswers] : n \in 0..MaxScan},
                    k : {0}, acc : {ScanStart}, out : {NoDefaults}]

\* one pass of the loop: GetServer of the next member and the three comparisons
ScanMember ==
    /\ call.op = "scan"
    /\ call.out = NoDefaults
    /\ call.k < Len(call.answers)
    /\ call.acc.err = Nil
    /\ call' = [call EXCEPT !.k = @ + 1,
                            !.acc = ScanServer(@, call.answers[call.k + 1])]
    /\ UNCHANGED <<provider, fields, nodeGroups, nodeMap, rf,
                   op, pc, delta, nodes, i, size, desiredSize, polls, result, hist>>

\* the return of extractGroupDefaults: from the loop on a failed lookup,
\* after the loop otherwise
ScanReturn ==
    /\ call.op = "scan"
    /\ call.out = NoDefaults
    /\ call.k = Len(call.answers) \/ call.acc.err # Nil
    /\ call' = [call EXCEPT !.out = ScanResult(call.acc)]
    /\ UNCHANGED <<provider, fields, nodeGroups, nodeMap, rf,
                   op, pc, delta, nodes, i, size, desiredSize, polls, result, hist>>

ScanNext == ScanMember \/ ScanReturn

ScanSpec == ScanInit /\ [][ScanNext]_vars

\* ------------------------------------------- reads of the node group
\* TargetSize, CurrentSize, Nodes and Exist: one GetServerGroup each, on a
\* provider whose listing holds servers of every status and changes
\* between the calls
RECURSIVE Ascending(_)
Ascending(S) ==
    IF S = {} THEN <<>>
    ELSE LET m == CHOOSE x \in S : \A y \in S : x <= y
         IN <<m>> \o Ascending(S \ {m})

\* group.Servers as GetServerGroup returns it: id and status of each member
GroupListing ==
    LET ids == Ascending(groupServers)
    IN [k \in DOMAIN ids |-> [Id |-> ids[k], Status |-> servers[ids[k]].status]]

\* a nil ErrorInfo
NoErrorInfo == [ErrorClass |-> "", ErrorCode |-> "", ErrorMessage |-> ""]

NodesInstance_othersRunning(server) ==
    [Id |-> server.Id,
     State |-> CASE server.Status = "creating" -> "Creating"
                 [] server.Status = "deleting" -> "Deleting"
                 [] OTHER -> "Running",
     ErrorInfo |-> NoErrorInfo]

\* Nodes: the instance built for one member of the listing; the states are
\* cloudprovider.InstanceRunning, InstanceCreating and InstanceDeleting, ""
\* is the State left unset, the error class is cloudprovider.OtherErrorClass
NodesInstance(server) ==
    [Id |-> server.Id,
     State |-> CASE server.Status = "active" -> "Running"
                 [] server.Status = "creating" -> "Creating"
                 [] server.Status = "deleting" -> "Deleting"
                 [] OTHER -> "",
     ErrorInfo |-> IF server.Status \in {"active", "creating", "deleting"}
                   THEN NoErrorInfo
                   ELSE [ErrorClass |-> "OtherErrorClass",
                         ErrorCode |-> server.Status,
                         ErrorMessage |-> server.Status]]

Exist_alwaysTrue(err) == TRUE

\* Exist: return err == nil
Exist(err) == err = Nil

LookupErr(ok) == IF ok THEN Nil ELSE ErrServerGroup

QueryFrame ==
    UNCHANGED <<provider, fields, nodeGroups, nodeMap, rf,
                op, pc, delta, nodes, i, size, desiredSize, polls, result, hist>>

CallTargetSize(ok) ==
    /\ call = NoCall
    /\ call' = [op |-> "TargetSize", out |-> IF ok THEN TargetSize ELSE 0,
                err |-> LookupErr(ok)]
    /\ QueryFrame

\* CurrentSize: return ng.TargetSize()
CallCurrentSize(ok) ==
    /\ call = NoCall
    /\ call' = [op |-> "CurrentSize", out |-> IF ok THEN TargetSize ELSE 0,
                err |-> LookupErr(ok)]
    /\ QueryFrame

CallNodes(ok) ==
    /\ call = NoCall
    /\ call' = [op |-> "Nodes",
                out |-> IF ok THEN [k \in DOMAIN GroupListing |-> NodesInstance(GroupListing[k])]
                        ELSE <<>>,
                err |-> LookupErr(ok)]
    /\ QueryFrame

CallExist(ok) ==
    /\ call = NoCall
    /\ call' = [op |-> "Exist", out |-> Exist(LookupErr(ok)), err |-> LookupErr(ok)]
    /\ QueryFrame

\* the read returns to the autoscaler
QueryReturn ==
    /\ call.op \in {"TargetSize", "CurrentSize", "Nodes", "Exist"}
    /\ call' = NoCall
    /\ QueryFrame

\* between two reads the provider lists other servers in the group
ProviderChangesListing ==
    /\ call = NoCall
    /\ \E gs \in SUBSET ServerIds :
          /\ gs # groupServers
          /\ groupServers' = gs
          /\ servers' = [s \in ServerIds |-> [servers[s] EXCEPT !.member = s \in gs]]
    /\ UNCHANGED <<fields, cloud,
                   op, pc, delta, nodes, i, size, desiredSize, polls, result, hist>>

QueryInit ==
    /\ \E st \in [ServerIds -> {"active", "creating", "deleting", "inactive"}], gs \in SUBSET ServerIds :
          /\ servers = [s \in ServerIds |-> [status |-> st[s], member |-> s \in gs]]
          /\ groupServers = gs
    /\ minSize = fakeMinSize
    /\ maxSize = MaxMaxSize
    /\ serverOptions = fakeServerOptions
    /\ op = None
    /\ pc = "idle"
    /\ delta = 0
    /\ nodes = <<>>
    /\ i = 0
    /\ size = -1
    /\ desiredSize = -1
    /\ polls = 0
    /\ result = None
    /\ hist = EmptyHist
    /\ CloudInit

QueryNext ==
    \/ \E ok \in BOOLEAN : CallTargetSize(ok)
    \/ \E ok \in BOOLEAN : CallCurrentSize(ok)
    \/ \E ok \in BOOLEAN : CallNodes(ok)
    \/ \E ok \in BOOLEAN : CallExist(ok)
    \/ QueryReturn
    \/ ProviderChangesListing

QuerySpec == QueryInit /\ [][QueryNext]_vars

\* ------------------------------------------------- the 1:4 scenario
\* the node group of the tests: description "1:4", two members listed, and
\* servers enough to grow to the maximum and one past it
fakeMaxSize == 4
fakeTargetSize == 2

ScenarioServerIds == 1..(fakeServer + fakeMaxSize - fakeTargetSize + 1)

ScenarioMembers ==
    {s \in GroupServerIds :
        Cardinality({x \in GroupServerIds : x <= s}) <= fakeTargetSize}

ScenarioInit ==
    /\ servers = [s \in ScenarioServerIds |->
                    IF s = fakeServer THEN [status |-> "active", member |-> FALSE]
                    ELSE IF s \in ScenarioMembers THEN [status |-> "active", member |-> TRUE]
                    ELSE Absent]
    /\ groupServers = ScenarioMembers
    /\ minSize = fakeMinSize
    /\ maxSize = fakeMaxSize
    /\ serverOptions = fakeServerOptions
    /\ op = None
    /\ pc = "idle"
    /\ delta = 0
    /\ nodes = <<>>
    /\ i = 0
    /\ size = -1
    /\ desiredSize = -1
    /\ polls = 0
    /\ result = None
    /\ hist = EmptyHist
    /\ CloudInit

ScenarioNext ==
    \/ \E d \in 0..fakeMaxSize : IncreaseSize(d)
    \/ \E ok \in BOOLEAN : IncTargetSize(ok)
    \/ \E ok \in BOOLEAN : IncCreateServer(ok)
    \/ \E ok \in BOOLEAN : IncPoll(ok)
    \/ \E s \in ScenarioServerIds : ProviderListServer(s)
    \/ Return

ScenarioSpec == ScenarioInit /\ [][ScenarioNext]_vars

\* ------------------------------------------------------- BuildBrightbox
\* startup: options and environment are checked before a provider is built

\* the fixed words of the join command pattern, a text being the sequence
\* of its characters
joinCommandWords ==
    [kubeadm |-> <<"k", "u", "b", "e", "a", "d", "m">>,
     join |-> <<"j", "o", "i", "n">>,
     token |-> <<"-", "-", "t", "o", "k", "e", "n">>,
     hash |->
        <<"-", "-", "d", "i", "s", "c", "o", "v", "e", "r", "y", "-", "t", "o", "k", "e", "n">>
        \o <<"-", "c", "a", "-", "c", "e", "r", "t", "-", "h", "a", "s", "h">>,
     sha256 |-> <<"s", "h", "a", "2", "5", "6", ":">>]

\* strings.TrimSpace
RECURSIVE TrimSpace(_)
TrimSpace(s) ==
    IF s = <<>> THEN s
    ELSE IF Head(s) = " " THEN TrimSpace(Tail(s))
    ELSE IF s[Len(s)] = " " THEN TrimSpace(SubSeq(s, 1, Len(s) - 1))
    ELSE s

\* re.MatchString(command) for the pattern
\*   ^kubeadm +join +[0-9\.]+:[0-9]+ +--token +[a-z0-9]{6}\.[a-z0-9]{16}
\*    +--discovery-token-ca-cert-hash +sha256:[0-9a-f]+$
\* which is anchored at both ends and in which only " +" matches a space:
\* the command is seven parts separated by runs of spaces
MatchString(command) ==
    LET digits == {"0", "1", "2", "3", "4", "5", "6", "7", "8", "9"}
        lower == {"a", "b", "c", "d", "e", "f", "g", "h", "i", "j", "k", "l", "m",
                  "n", "o", "p", "q", "r", "s", "t", "u", "v", "w", "x", "y", "z"}
        hex == digits \cup {"a", "b", "c", "d", "e", "f"}
        AllIn(w, class) == \A k \in DOMAIN w : w[k] \in class
        f == SelectSeq(Split(command, " "), LAMBDA part : part # <<>>)
        address(w) ==
            \E c \in DOMAIN w :
                /\ w[c] = ":"
                /\ c > 1
                /\ c < Len(w)
                /\ AllIn(SubSeq(w, 1, c - 1), digits \cup {"."})
                /\ AllIn(SubSeq(w, c + 1, Len(w)), digits)
        token(w) ==
            /\ Len(w) = 23
            /\ w[7] = "."
            /\ AllIn(SubSeq(w, 1, 6), lower \cup digits)
            /\ AllIn(SubSeq(w, 8, 23), lower \cup digits)
        hash(w) ==
            /\ Len(w) > Len(joinCommandWords.sha256)
            /\ SubSeq(w, 1, Len(joinCommandWords.sha256)) = joinCommandWords.sha256
            /\ AllIn(SubSeq(w, Len(joinCommandWords.sha256) + 1, Len(w)), hex)
    IN /\ command # <<>>
       /\ Head(command) # " "
       /\ command[Len(command)] # " "
       /\ Len(f) = 7
       /\ f[1] = joinCommandWords.kubeadm
       /\ f[2] = joinCommandWords.join
       /\ address(f[3])
       /\ f[4] = joinCommandWords.token
       /\ token(f[5])
       /\ f[6] = joinCommandWords.hash
       /\ hash(f[7])

\* validateEnvironment: os.LookupEnv finds both variables of k8sEnvVars;
\* a variable is [set, value]
validateEnvironment(env) == env.join.set /\ env.version.set

\* validateJoinCommand: the trimmed join command matches the pattern
validateJoinCommand(env) == MatchString(TrimSpace(env.join.value))

BuildResult_joinCommandUnchecked(opts, env, clientOk) ==
    IF opts.ClusterName = <<>> THEN [kind |-> "fatal", ClusterName |-> <<>>]
    ELSE IF ~validateEnvironment(env) THEN [kind |-> "fatal", ClusterName |-> <<>>]
    ELSE IF ~clientOk THEN [kind |-> "fatal", ClusterName |-> <<>>]
    ELSE [kind |-> "provider", ClusterName |-> opts.ClusterName]

\* BuildBrightbox: klog.Fatal ends the process at the first check that
\* fails, else the provider is returned
BuildResult(opts, env, clientOk) ==
    IF opts.ClusterName = <<>> THEN [kind |-> "fatal", ClusterName |-> <<>>]
    ELSE IF ~validateEnvironment(env) THEN [kind |-> "fatal", ClusterName |-> <<>>]
    ELSE IF ~validateJoinCommand(env) THEN [kind |-> "fatal", ClusterName |-> <<>>]
    ELSE IF ~clientOk THEN [kind |-> "fatal", ClusterName |-> <<>>]
    ELSE [kind |-> "provider", ClusterName |-> opts.ClusterName]

\* join commands the environment may hold
fakeJoinCommands ==
    LET w == joinCommandWords
        sp == <<" ">>
        address == <<"1", "0", ".", "0", ".", "0", ".", "1", ":", "6", "4", "4", "3">>
        token == <<"a", "b", "c", "d", "e", "f", ".", "0", "1", "2", "3", "4", "5", "6", "7", "8", "9", "a", "b", "c", "d", "e", "f">>
        hash == w.sha256 \o <<"0", "a", "1", "b">>
        good == w.kubeadm \o sp \o w.join \o sp \o address \o sp \o w.token \o sp \o token
                    \o sp \o w.hash \o sp \o hash
    IN [good |-> good,
        spaced |-> sp \o w.kubeadm \o sp \o sp \o w.join \o sp \o address \o sp \o w.token
                      \o sp \o token \o sp \o w.hash \o sp \o sp \o hash \o sp,
        empty |-> <<>>,
        injected |-> good \o <<";">> \o sp \o w.join,
        extraWord |-> good \o sp \o w.join,
        noPort |-> w.kubeadm \o sp \o w.join \o sp \o <<"1", "0", ".", "0">> \o sp \o w.token
                      \o sp \o token \o sp \o w.hash \o sp \o hash,
        shortToken |-> w.kubeadm \o sp \o w.join \o sp \o address \o sp \o w.token \o sp
                          \o SubSeq(token, 1, 6) \o sp \o w.hash \o sp \o hash,
        capitalHash |-> w.kubeadm \o sp \o w.join \o sp \o address \o sp \o w.token \o sp
                           \o token \o sp \o w.hash \o sp \o w.sha256 \o <<"0", "A">>,
        noKubeadm |-> w.join \o sp \o address \o sp \o w.token \o sp \o token
                         \o sp \o w.hash \o sp \o hash]

BuildInit ==
    /\ GroupInit(fakeMinSize)
    /\ nodeGroups = <<>>
    /\ nodeMap = <<>>
    /\ rf = IdleFrame
    /\ LET unset == [set |-> FALSE, value |-> <<>>]
           valued(v) == [set |-> TRUE, value |-> v]
       IN call \in [op : {"BuildBrightbox"},
                    opts : [ClusterName : {<<>>, fakeClusterName}],
                    env : [join : {unset} \cup {valued(fakeJoinCommands[c]) :
                                                    c \in DOMAIN fakeJoinCommands},
                           version : {unset, valued(<<>>),
                                      valued(<<"1", ".", "1", "7">>)}],
                    clientOk : BOOLEAN,
                    out : {[kind |-> "none", ClusterName |-> <<>>]}]

BuildBrightbox ==
    /\ call.op = "BuildBrightbox"
    /\ call.out.kind = "none"
    /\ call' = [call EXCEPT !.out = BuildResult(call.opts, call.env, call.clientOk)]
    /\ UNCHANGED <<provider, fields, nodeGroups, nodeMap, rf,
                   op, pc, delta, nodes, i, size, desiredSize, polls, result, hist>>

BuildNext == BuildBrightbox

BuildSpec == BuildInit /\ [][BuildNext]_vars

\* ------------------------------------------- calls concurrent with Refresh
\* the provider object has no lock: a call of the autoscaler made from another
\* thread runs between any two steps of Refresh.  NodeGroupForNode reads
\* b.nodeMap and, in findNodeGroup, b.nodeGroups; here both reads fall
\* between the same two steps of Refresh.  The call keeps what it read of
\* the two fields, and the two cycles of the Refresh it ran beside: the
\* fields at the start of that Refresh and the ones that Refresh has built.
ConcurrentNodeGroupForNode(s) ==
    /\ rf.pc \notin {"idle", "done"}
    /\ call.op = None
    /\ call' = [op |-> "NodeGroupForNode", node |-> s,
                out |-> IF s \in DOMAIN nodeMap THEN findNodeGroup(nodeMap[s])
                        ELSE NoNodeGroup,
                err |-> Nil,
                during |-> rf.pc,
                read |-> <<nodeGroups, nodeMap>>,
                before |-> rf.before,
                built |-> <<rf.nodeGroups, rf.nodeMap>>]
    /\ UNCHANGED <<provider, fields, nodeGroups, nodeMap, rf,
                   op, pc, delta, nodes, i, size, desiredSize, polls, result, hist>>

ConcurrentNext ==
    \/ CycleNext
    \/ \E s \in ServerIds : ConcurrentNodeGroupForNode(s)

ConcurrentSpec == RefreshInit /\ [][ConcurrentNext]_vars

\* ------------------------------------------------ the adapter as a whole
\* the autoscaler's loop, which makes one call at a time: a Refresh, then on
\* the node groups it stored changes, reads and lookups of nodes, then the
\* next Refresh; the provider moves at any time
Quiet == pc = "idle" /\ call = NoCall

NotRefreshing == rf.pc \in {"idle", "done"} /\ call = NoCall

AdapterNext ==
    \/ Quiet /\ RefreshGetServerGroups([Name : {<<"workers">> \o fakeClusterName},
                                        Description : {<<"1", ":", "2">>},
                                        Servers : {<<1>>}])
    \/ RefreshGroup(cycleServerAnswers)
    \/ RefreshSetNodeGroups
    \/ RefreshSetNodeMap
    \/ Quiet /\ RefreshReturn
    \/ \E k \in 1..MaxGroups : Quiet /\ SelectNodeGroup(k)
    \/ \E d \in {0, 1} : NotRefreshing /\ IncreaseSize(d)
    \/ \E ok \in BOOLEAN : IncTargetSize(ok)
    \/ \E ok \in BOOLEAN : IncCreateServer(ok)
    \/ \E ok \in BOOLEAN : IncPoll(ok)
    \/ \E ns \in {<<>>, <<1>>} : NotRefreshing /\ DeleteNodes(ns)
    \/ \E ok \in BOOLEAN : DelCurrentSize(ok)
    \/ \E ans \in Answers : DelCheck(ans)
    \/ \E ok \in BOOLEAN : DelDestroyServer(ok)
    \/ \E ans \in Answers : DelPoll(ans)
    \/ \E d \in {-1, 0} : NotRefreshing /\ DecreaseTargetSize(d)
    \/ \E ok \in BOOLEAN : DecTargetSize(ok)
    \/ \E ok \in BOOLEAN : DecCurrentSize(ok)
    \/ Return
    \/ \E s \in ServerIds : ProviderListServer(s)
    \/ \E s \in ServerIds : ProviderDeleteServer(s)
    \/ \E s \in ServerIds : ProviderUnlistServer(s)
    \/ \E ok \in BOOLEAN : NotRefreshing /\ pc = "idle" /\ CallTargetSize(ok)
    \/ \E ok \in BOOLEAN : NotRefreshing /\ pc = "idle" /\ CallCurrentSize(ok)
    \/ \E ok \in BOOLEAN : NotRefreshing /\ pc = "idle" /\ CallNodes(ok)
    \/ \E ok \in BOOLEAN : NotRefreshing /\ pc = "idle" /\ CallExist(ok)
    \/ QueryReturn
    \/ \E s \in ServerIds : Quiet /\ NodeGroupForNode(s)
    \/ CallReturn

AdapterSpec == RefreshInit /\ [][AdapterNext]_vars

\* ================================================================ claims
Range(f) == {f[k] : k \in DOMAIN f}

Errors == {ErrPositive, ErrTooLarge, ErrMinSize, ErrNegative, ErrDeleteExisting,
           ErrShouldntHaveGotHere, ErrDifferentGroup, ErrWaitTimeout, ErrServerGroup,
           ErrCreateServer, ErrDestroyServer, ErrServer, ErrServerNotFound}

\* C1: IncreaseSize(delta) returns success only if all delta create calls were
\* made and a size poll after them saw at least (size read at the start +
\* delta) members; when the last poll of the budget sees fewer, the call
\* returns the wait timeout error, and that error is returned only after
\* every create call succeeded.
C1_IncreaseSizeSuccessOnlyWhenObserved ==
    (op = "IncreaseSize" /\ pc = "done") =>
        /\ result = Nil =>
              /\ hist.createCalls = delta
              /\ Cardinality(hist.created) = delta
              /\ hist.pollSize >= size + delta
        /\ (polls = MaxPolls /\ hist.pollSize # -1 /\ hist.pollSize < size + delta) =>
              result = ErrWaitTimeout
        /\ result = ErrWaitTimeout =>
              /\ Cardinality(hist.created) = delta
              /\ polls = MaxPolls
              /\ hist.pollSize < size + delta

C1_Witness ==
    /\ op = "IncreaseSize" /\ pc = "done" /\ result = Nil
    /\ delta >= 1 /\ hist.pollSize = size + delta /\ polls >= 2

\* C2: for delta <= 0 IncreaseSize returns an error and issues no create call
\* (nor any other provider call).
C2_IncreaseSizeRejectsNonPositiveDelta ==
    (op = "IncreaseSize" /\ delta <= 0) =>
        /\ pc = "done"
        /\ result = ErrPositive
        /\ hist.createCalls = 0
        /\ hist.created = {}
        /\ hist.lookups = {}

C2_Witness == op = "IncreaseSize" /\ delta = 0 /\ pc = "done" /\ result \in Errors

\* C3: for delta > 0, when the size read at the start plus delta exceeds
\* maxSize, IncreaseSize returns the bounds error and issues no create (or
\* destroy) call.
C3_IncreaseSizeRejectsAboveMax ==
    (op = "IncreaseSize" /\ delta > 0 /\ size # -1 /\ size + delta > maxSize) =>
        /\ pc = "done"
        /\ result = ErrTooLarge
        /\ hist.createCalls = 0
        /\ hist.created = {}
        /\ hist.destroyCalls = <<>>
        /\ hist.destroyed = {}

C3_Witness ==
    /\ op = "IncreaseSize" /\ pc = "done" /\ result = ErrTooLarge
    /\ delta > 0 /\ size + delta > maxSize

\* C4: when a create call of IncreaseSize fails, the call returns that
\* provider error at once: the failed call is the last create call, no
\* convergence poll is made, and the servers created before it are not
\* destroyed.
C4_CreateFailureAbortsWithoutRollback ==
    (op = "IncreaseSize" /\ hist.createCalls # Cardinality(hist.created)) =>
        /\ pc = "done"
        /\ result = ErrCreateServer
        /\ hist.createCalls = Cardinality(hist.created) + 1
        /\ hist.createCalls = i
        /\ i <= delta
        /\ polls = 0
        /\ hist.pollSize = -1
        /\ hist.destroyCalls = <<>>
        /\ \A s \in hist.created : servers[s].status = "active" /\ servers[s].member

C4_Witness ==
    /\ op = "IncreaseSize" /\ pc = "done" /\ result = ErrCreateServer
    /\ i = 2 /\ Cardinality(hist.created) = 1

\* C5: DecreaseTargetSize never succeeds: whatever delta and whatever the two
\* size reads return it ends with an error and issues no create or destroy
\* call; for delta >= 0 it fails before any provider lookup.
C5_DecreaseTargetSizeAlwaysFails ==
    (op = "DecreaseTargetSize") =>
        /\ result # Nil
        /\ pc = "done" => result \in Errors
        /\ hist.createCalls = 0
        /\ hist.destroyCalls = <<>>
        /\ delta >= 0 => (pc = "done" /\ result = ErrNegative /\ hist.lookups = {})

\* the group size changed between the two reads
C5_Witness ==
    /\ op = "DecreaseTargetSize" /\ pc = "done"
    /\ delta < 0 /\ hist.secondSize # -1 /\ hist.secondSize < size
    /\ result = ErrShouldntHaveGotHere

\* C6: DeleteNodes issues no destroy call for a server whose record the
\* membership check saw deleted or outside this group, and the call then
\* returns the different-group error; a destroy call is issued only after the
\* check saw the server present in the group.
C6_NoDestroyOfForeignOrDeleted ==
    (op = "DeleteNodes") =>
        /\ hist.checkSaw = "gone" =>
              /\ pc = "done"
              /\ result = ErrDifferentGroup
              /\ i \notin Range(hist.destroyCalls)
        /\ pc \in {"del_destroy", "del_poll"} => hist.checkSaw = "present"
        /\ i \in Range(hist.destroyCalls) => hist.checkSaw = "present"

C6_Witness ==
    /\ op = "DeleteNodes" /\ pc = "done" /\ result = ErrDifferentGroup
    /\ nodes[i] = fakeServer /\ hist.destroyCalls = <<>>

\* C7: every iteration of DeleteNodes reads the group size again, and when
\* the size read is at or below minSize the call returns the min-size error
\* with no destroy call for that position or a later one; a destroy call is
\* issued only in an iteration whose size read was above minSize.  (Sizes are
\* the ones the provider's listing returned to that iteration.)
C7_MinSizeCheckedEveryIteration ==
    (op = "DeleteNodes") =>
        /\ (size # -1 /\ size <= minSize) =>
              /\ pc = "done"
              /\ result = ErrMinSize
              /\ Range(hist.destroyCalls) = 1..(i - 1)
        /\ pc \in {"del_check", "del_destroy", "del_poll"} => size > minSize
        /\ i \in Range(hist.destroyCalls) => size > minSize
        /\ result = ErrMinSize => size # -1 /\ size <= minSize

\* a batch of the two members: the first is deleted, the second is refused
C7_Witness ==
    /\ op = "DeleteNodes" /\ pc = "done" /\ result = ErrMinSize
    /\ Len(nodes) = 2 /\ i = 2 /\ hist.destroyCalls = <<1>>
    /\ size = minSize /\ minSize = 1

\* C7 (as claimed): the per-iteration check of C7_MinSizeCheckedEveryIteration
\* and its consequence, that a call of DeleteNodes which destroyed servers
\* never leaves the group with fewer than minSize members: a batch that would
\* empty the group deletes only down to minSize and then fails.
C7_DeletesOnlyDownToMinSize ==
    /\ C7_MinSizeCheckedEveryIteration
    /\ (op = "DeleteNodes" /\ hist.destroyed # {}) =>
          Cardinality(RealMembers) >= minSize

\* C8: DeleteNodes with an empty list returns success and makes no provider
\* call, whatever the group size.
C8_EmptyDeleteIsNoOp ==
    (op = "DeleteNodes" /\ nodes = <<>>) =>
        /\ pc = "done"
        /\ result = Nil
        /\ hist.lookups = {}
        /\ hist.createCalls = 0
        /\ hist.destroyCalls = <<>>

C8_Witness ==
    /\ op = "DeleteNodes" /\ nodes = <<>> /\ pc = "done" /\ result = Nil
    /\ TargetSize <= minSize

\* C9: DeleteNodes is fail-fast and in list order: destroy calls are issued
\* for positions 1, 2, ... in order; a failed size check, membership check,
\* destroy call or convergence wait at position i ends the call with that
\* error; then no destroy call was issued for a position after i, and the
\* servers at the positions before i were destroyed, were seen gone, and stay
\* so (nothing is created again).
C9_DeleteNodesFailFastInOrder ==
    (op = "DeleteNodes") =>
        /\ \A k \in DOMAIN hist.destroyCalls : hist.destroyCalls[k] = k
        /\ Len(hist.destroyCalls) \in {i - 1, i}
        /\ result # None => pc = "done"
        /\ (size # -1 /\ size <= minSize) => (pc = "done" /\ result = ErrMinSize)
        /\ hist.checkSaw = "gone" => (pc = "done" /\ result = ErrDifferentGroup)
        /\ (i \in Range(hist.destroyCalls) /\ nodes[i] \notin hist.destroyed) =>
              (pc = "done" /\ result = ErrDestroyServer)
        /\ polls = MaxPolls =>
              (pc = "done" /\ result \in {ErrWaitTimeout, ErrServer, ErrServerNotFound})
        /\ (pc = "done" /\ result # Nil) =>
              /\ i <= Len(nodes)
              /\ \A k \in (i + 1)..Len(nodes) : k \notin Range(hist.destroyCalls)
        /\ \A k \in 1..(i - 1) :
              /\ k \in Range(hist.destroyCalls)
              /\ k \in hist.gone
              /\ nodes[k] \in hist.destroyed
              /\ servers[nodes[k]].status = "deleted"
        /\ hist.createCalls = 0

C9_Witness ==
    /\ op = "DeleteNodes" /\ pc = "done" /\ result = ErrDestroyServer
    /\ Len(nodes) = 2 /\ i = 2 /\ hist.destroyCalls = <<1, 2>>
    /\ hist.gone = {1}

\* C10: DeleteNodes returns success only if for every listed position a
\* destroy call was issued and accepted and a later lookup saw that server
\* deleted or outside the group; the destroy call of a position is issued
\* only after every earlier position was seen so.
C10_DeleteSuccessOnlyWhenSeenGone ==
    (op = "DeleteNodes") =>
        /\ (pc = "done" /\ result = Nil) =>
              /\ Range(hist.destroyCalls) = 1..Len(nodes)
              /\ hist.gone = 1..Len(nodes)
              /\ \A k \in 1..Len(nodes) : nodes[k] \in hist.destroyed
        /\ \A k \in DOMAIN hist.destroyCalls :
              \A j \in 1..(hist.destroyCalls[k] - 1) : j \in hist.gone
        /\ hist.gone \subseteq Range(hist.destroyCalls)

C10_Witness ==
    /\ op = "DeleteNodes" /\ pc = "done" /\ result = Nil
    /\ Len(nodes) = 2 /\ hist.gone = {1, 2} /\ hist.destroyCalls = <<1, 2>>

\* ------------------------------------------- claims on the cloud provider
\* the decimal text of an integer
DigitChars == <<"0", "1", "2", "3", "4", "5", "6", "7", "8", "9">>

RECURSIVE IntText(_)
IntText(n) ==
    IF n < 0 THEN <<"-">> \o IntText(0 - n)
    ELSE IF n < 10 THEN <<DigitChars[n + 1]>>
    ELSE IntText(n \div 10) \o IntText(n % 10)

RECURSIVE Pow10(_)
Pow10(k) == IF k = 0 THEN 1 ELSE 10 * Pow10(k - 1)

\* the integers a text of the alphabet is the decimal text of (none or one)
IntsOf(f) == {n \in (0 - Pow10(Len(f)))..Pow10(Len(f)) : IntText(n) = f}

\* the pairs (a, b) a description is the text "a:b" of (none or one)
BoundsOf(d) ==
    UNION {IntsOf(SubSeq(d, 1, k - 1)) \X IntsOf(SubSeq(d, k + 1, Len(d))) :
             k \in {j \in DOMAIN d : d[j] = ":"}}

\* the description is not two integers, or the two integers are equal
EqualOrUnparsable(d) == \A b \in BoundsOf(d) : b[1] = b[2]

\* the provider groups of the listing that the node groups are built from
Surfaced(ngs) == {ngs[k].id : k \in DOMAIN ngs}

Indexed(map) == {map[s] : s \in DOMAIN map}

RefreshSucceeded == rf.pc = "done" /\ rf.result = Nil

C13_BoundsFromDescriptionOrMemberCount ==
    (call.op = "makeNodeGroupFromApiDetails" /\ call.out # NoNodeGroup) =>
        IF \E b \in BoundsOf(call.description) : b[1] < b[2]
        THEN <<call.out.minSize, call.out.maxSize>> \in BoundsOf(call.description)
        ELSE call.out.minSize = call.defaultSize /\ call.out.maxSize = call.defaultSize

\* the name is a non-empty prefix, a dot and the cluster name
EndsWithDotCluster(name) ==
    \E m \in 1..(Len(name) - 1) : SubSeq(name, m + 1, Len(name)) = fakeClusterName

Eligible(groups) ==
    {k \in DOMAIN groups :
        /\ EndsWithDotCluster(groups[k].Name)
        /\ Len(groups[k].Servers) >= 1
        /\ ~EqualOrUnparsable(groups[k].Description)}

ExtractionFailed(k) ==
    k \in DOMAIN rf.extracted /\ rf.extracted[k].err \notin {Nil, None}

\* C15 (as claimed): when consensus extraction fails for a group, Refresh
\* goes on: it does not return that error, and when it is done it has
\* returned success with every other eligible group of the listing among
\* the node groups and in the membership index.
C15_ExtractionFailureSkipsOnlyThatGroup ==
    \A k \in DOMAIN rf.groups :
        ExtractionFailed(k) =>
            /\ rf.result \in {None, Nil}
            /\ rf.pc = "done" =>
                  \A j \in Eligible(rf.groups) \ {k} :
                      /\ rf.groups[j].Id \in Surfaced(nodeGroups)
                      /\ rf.groups[j].Id \in Indexed(nodeMap)

RefreshFailed == rf.pc = "done" /\ rf.result \notin {Nil, None}

\* C16: when Refresh has returned an error, the node groups and the
\* membership index of the provider are what they were when the call began;
\* when it has returned success, both are the ones built by the call.
C16_FailedRefreshChangesNothing ==
    /\ RefreshFailed => <<nodeGroups, nodeMap>> = rf.before
    /\ RefreshSucceeded => <<nodeGroups, nodeMap>> = <<rf.nodeGroups, rf.nodeMap>>

\* the listing fails in a cycle that follows one which surfaced a group
C16_Witness ==
    /\ RefreshFailed
    /\ rf.result = ErrServerGroups
    /\ nodeGroups # <<>>
    /\ DOMAIN nodeMap # {}

\* the members the listing of this cycle gives to the group with the id
MembersOf(id) ==
    UNION {Range(rf.groups[k].Servers) :
              k \in {j \in DOMAIN rf.groups : rf.groups[j].Id = id}}

\* C17: after a successful Refresh the node groups are those built in this
\* cycle, each a group of this cycle's listing; the membership index holds
\* exactly the members of the surfaced groups, each mapped to a surfaced
\* group that lists it.
C17_SuccessfulRefreshReplacesEverything ==
    RefreshSucceeded =>
        /\ nodeGroups = rf.nodeGroups
        /\ Surfaced(nodeGroups) \subseteq {rf.groups[k].Id : k \in DOMAIN rf.groups}
        /\ DOMAIN nodeMap = UNION {MembersOf(id) : id \in Surfaced(nodeGroups)}
        /\ \A s \in DOMAIN nodeMap :
              /\ nodeMap[s] \in Surfaced(nodeGroups)
              /\ s \in MembersOf(nodeMap[s])

\* a group and a member of the cycle before are gone after this cycle,
\* which surfaced a group of its own
C17_Witness ==
    /\ RefreshSucceeded
    /\ nodeGroups # <<>>
    /\ Surfaced(rf.before[1]) \ Surfaced(nodeGroups) # {}
    /\ DOMAIN rf.before[2] \ DOMAIN nodeMap # {}

\* C19: NodeGroupForNode returns no error; for a server the membership
\* index knows it returns the stored node group whose id the index gives,
\* and for any other server it returns no node group.
C19_NodeGroupForNodeFollowsIndex ==
    call.op = "NodeGroupForNode" =>
        /\ call.err = Nil
        /\ IF call.node \in DOMAIN nodeMap
           THEN /\ call.out \in Range(nodeGroups)
                /\ call.out.id = nodeMap[call.node]
           ELSE call.out = NoNodeGroup

\* the lookup finds the second of two stored node groups
C19_Witness ==
    /\ call.op = "NodeGroupForNode"
    /\ Len(nodeGroups) = 2
    /\ call.out = nodeGroups[2]
    /\ call.node \in DOMAIN nodeMap

\* a lookup of a server no surfaced group lists, with node groups stored
C19_WitnessNotIndexed ==
    /\ call.op = "NodeGroupForNode"
    /\ nodeGroups # <<>>
    /\ call.node \notin DOMAIN nodeMap
    /\ call.out = NoNodeGroup

\* the position in the listing of the group a node group was built for
ListedAt(id) == CHOOSE j \in DOMAIN rf.groups : rf.groups[j].Id = id

\* the launch template C18 describes for the group at position j
TemplateOf(j) ==
    [groups |-> <<fetchDefaultGroup(rf.groups, fakeClusterName), rf.groups[j].Id>>,
     serverType |-> rf.extracted[j].serverType,
     image |-> rf.extracted[j].image,
     zone |-> rf.extracted[j].zone]

Carried(options) ==
    [groups |-> options.ServerGroups, serverType |-> options.ServerType,
     image |-> options.Image, zone |-> options.Zone]

StoredOptions == {nodeGroups[k].serverOptions : k \in DOMAIN nodeGroups}

\* C18: every node group Refresh builds or stores carries server options
\* whose groups are the default group's id and its own id, and whose type,
\* image and zone are what the extraction returned for its group; every
\* CreateServer call of IncreaseSize on a stored node group is issued with
\* the server options of that node group.
C18_TemplateCarriedToCreate ==
    /\ \A k \in DOMAIN rf.nodeGroups :
          Carried(rf.nodeGroups[k].serverOptions) = TemplateOf(ListedAt(rf.nodeGroups[k].id))
    /\ \A k \in DOMAIN nodeGroups :
          Carried(nodeGroups[k].serverOptions) = TemplateOf(ListedAt(nodeGroups[k].id))
    /\ (op = "IncreaseSize" /\ serverOptions \in StoredOptions) =>
          \A o \in hist.createdWith : o = serverOptions

\* IncreaseSize has created a server for the second of two listed groups,
\* the first of which is the default group
C18_Witness ==
    /\ serverOptions \in StoredOptions
    /\ op = "IncreaseSize"
    /\ hist.created # {}
    /\ hist.createdWith # {}
    /\ rf.defaultGroup = GroupId(1)
    /\ \A o \in hist.createdWith : o.ServerGroups = <<GroupId(1), GroupId(2)>>

Extracted == call.op = "extractGroupDefaults" /\ call.out # NoDefaults

\* every member looked up answers with its record, and the records agree on
\* the ids of server type, image and zone
AllAgree(answers, T, I, Z) ==
    /\ answers # <<>>
    /\ \A k \in DOMAIN answers :
          /\ answers[k].err = Nil
          /\ answers[k].ServerType.id = T
          /\ answers[k].Image.id = I
          /\ answers[k].Zone = Z

Usable(answers) ==
    \A k \in DOMAIN answers :
        /\ answers[k].ServerType.status \in {Available, Deprecated}
        /\ answers[k].Image.status \in {Available, Deprecated}

AgreedDefaults(T, I, Z) == [serverType |-> T, image |-> I, zone |-> Z, err |-> Nil]

\* C20 (as claimed): extraction over a non-empty member list whose members
\* agree on (T, I, Z) returns (T, I, Z) and no error.
C20_AgreeingMembersGiveTheirValues ==
    Extracted =>
        \A T \in TypeIds, I \in ImageIds, Z \in ZoneIds :
            AllAgree(call.answers, T, I, Z) => call.out = AgreedDefaults(T, I, Z)

\* C20 (amended): extraction over a non-empty member list whose members
\* agree on (T, I, Z), each reporting the server type and the image with
\* status available or deprecated, returns (T, I, Z) and no error.
C20_AgreeingUsableMembersGiveTheirValues ==
    Extracted =>
        \A T \in TypeIds, I \in ImageIds, Z \in ZoneIds :
            (AllAgree(call.answers, T, I, Z) /\ Usable(call.answers)) =>
                call.out = AgreedDefaults(T, I, Z)

\* two agreeing members with a deprecated image have been extracted
C20_Witness ==
    /\ Extracted
    /\ Len(call.answers) = 2
    /\ AllAgree(call.answers, "typ-b", "img-b", "zon-b")
    /\ Usable(call.answers)
    /\ call.answers[2].Image.status = Deprecated
    /\ call.out = AgreedDefaults("typ-b", "img-b", "zon-b")

\* the zones of the members scanned so far
ZonesSeen == {call.answers[j].Zone : j \in 1..call.k}

Scanning == call.op = "scan" /\ call.acc.err = Nil

ScanReturned == call.op = "scan" /\ call.out # NoDefaults

SomeUsable(answers) ==
    /\ \E j \in DOMAIN answers : answers[j].ServerType.status \in {Available, Deprecated}
    /\ \E j \in DOMAIN answers : answers[j].Image.status \in {Available, Deprecated}

AllAnswered(answers) == \A k \in DOMAIN answers : answers[k].err = Nil

ImagesOf(answers) == {answers[k].Image : k \in DOMAIN answers}

TypeUsable(answers) ==
    \E k \in DOMAIN answers : answers[k].ServerType.status \in {Available, Deprecated}

C22_WitnessAvailableFirst ==
    /\ Extracted
    /\ Len(call.answers) = 2
    /\ AllAnswered(call.answers)
    /\ call.answers[1].Image = [id |-> "img-a", status |-> Available]
    /\ call.answers[2].Image = [id |-> "img-b", status |-> Deprecated]
    /\ call.out.err = Nil
    /\ call.out.image = "img-a"

\* the members of a group all answered and two of them differ in server
\* type or in image
Disagree(answers) ==
    /\ AllAnswered(answers)
    /\ \E j \in DOMAIN answers, k \in DOMAIN answers :
          \/ answers[j].ServerType.id # answers[k].ServerType.id
          \/ answers[j].Image.id # answers[k].Image.id

\* C23 (as claimed): a group whose members disagree on server type or on
\* image is not among the node groups Refresh builds or stores, and Refresh
\* does not fail because of it.
C23_DisagreeingGroupNotSurfaced ==
    \A k \in DOMAIN rf.answers :
        Disagree(rf.answers[k]) =>
            /\ rf.groups[k].Id \notin Surfaced(rf.nodeGroups) \cup Surfaced(nodeGroups)
            /\ rf.result \in {None, Nil}

ImageUsable(answers) ==
    \E k \in DOMAIN answers : answers[k].Image.status \in {Available, Deprecated}

NoTriple(out) == out.serverType = "" /\ out.image = "" /\ out.zone = ""

\* C24: extraction returns an error and three empty values when the lookup
\* of a member fails (the error of the first lookup that failed) and when,
\* all lookups having succeeded, no member has a server type, or no member
\* has an image, with status available or deprecated (so for no members).
C24_ExtractionErrors ==
    Extracted =>
        /\ ~AllAnswered(call.answers) =>
              /\ NoTriple(call.out)
              /\ \E k \in DOMAIN call.answers :
                    /\ call.out.err = call.answers[k].err
                    /\ call.out.err # Nil
                    /\ \A j \in 1..(k - 1) : call.answers[j].err = Nil
        /\ (AllAnswered(call.answers) /\ ~TypeUsable(call.answers)) =>
              NoTriple(call.out) /\ call.out.err = ErrNoServerType
        /\ (AllAnswered(call.answers) /\ TypeUsable(call.answers)
              /\ ~ImageUsable(call.answers)) =>
              NoTriple(call.out) /\ call.out.err = ErrNoImage

\* two members whose images are both unavailable
C24_Witness ==
    /\ Extracted
    /\ Len(call.answers) = 2
    /\ AllAnswered(call.answers)
    /\ TypeUsable(call.answers)
    /\ \A k \in DOMAIN call.answers : call.answers[k].Image.status = Unavailable
    /\ call.out = Failed(ErrNoImage)

\* the lookup of the second member fails
C24_WitnessLookupFails ==
    /\ Extracted
    /\ Len(call.answers) = 2
    /\ call.answers[1].err = Nil
    /\ call.answers[2].err = ErrServerNotFound
    /\ call.out = Failed(ErrServerNotFound)

\* no members
C24_WitnessNoMembers ==
    /\ Extracted
    /\ call.answers = <<>>
    /\ call.out = Failed(ErrNoServerType)

\* C25: TargetSize and CurrentSize each return the number of members the
\* provider lists for the group at that call, whatever their status, with
\* no error; when the lookup fails each returns 0 and the lookup's error.
C25_SizesAreTheListingLength ==
    call.op \in {"TargetSize", "CurrentSize"} =>
        IF call.err = Nil
        THEN call.out = Cardinality(groupServers)
        ELSE call.out = 0 /\ call.err = ErrServerGroup

\* CurrentSize counts two members, one of them not active
C25_Witness ==
    /\ call.op = "CurrentSize"
    /\ call.err = Nil
    /\ call.out = 2
    /\ \E s \in groupServers : servers[s].status # "active"

C25_WitnessLookupFails ==
    /\ call.op = "TargetSize"
    /\ call.err = ErrServerGroup
    /\ call.out = 0
    /\ groupServers # {}

\* C26: Nodes returns one instance per member the provider lists for the
\* group, with the member's id; its state is Running, Creating or Deleting
\* for status active, creating or deleting, with no error record, and for
\* any other status it carries an error record whose code and message are
\* the status; there are as many instances as TargetSize counts members.
C26_NodesMirrorTheListing ==
    (call.op = "Nodes" /\ call.err = Nil) =>
        /\ Len(call.out) = Cardinality(groupServers)
        /\ Len(call.out) = TargetSize
        /\ {call.out[k].Id : k \in DOMAIN call.out} = groupServers
        /\ \A k \in DOMAIN call.out :
              LET status == servers[call.out[k].Id].status
                  inst == call.out[k]
              IN CASE status = "active" ->
                        inst.State = "Running" /\ inst.ErrorInfo = NoErrorInfo
                   [] status = "creating" ->
                        inst.State = "Creating" /\ inst.ErrorInfo = NoErrorInfo
                   [] status = "deleting" ->
                        inst.State = "Deleting" /\ inst.ErrorInfo = NoErrorInfo
                   [] OTHER ->
                        /\ inst.ErrorInfo.ErrorCode = status
                        /\ inst.ErrorInfo.ErrorMessage = status
                        /\ inst.State \notin {"Running", "Creating", "Deleting"}

\* Nodes over a listing of three members: deleting, inactive, active
C26_Witness ==
    /\ call.op = "Nodes"
    /\ call.err = Nil
    /\ Len(call.out) = 3
    /\ call.out[1].State = "Deleting"
    /\ call.out[2].ErrorInfo.ErrorCode = "inactive"
    /\ call.out[3].State = "Running"

\* C27: Exist returns true when the lookup of the group returned without
\* error and false when it returned an error, and the call leaves the
\* provider and the node group as they were.
C27_ExistIsLookupSuccess ==
    [][(call.op = None /\ call'.op = "Exist") =>
          /\ call'.out = (call'.err = Nil)
          /\ UNCHANGED <<provider, fields, nodeGroups, nodeMap>>]_vars

\* Exist has answered false on a failed lookup of a group that has members
C27_Witness ==
    /\ call.op = "Exist"
    /\ call.err = ErrServerGroup
    /\ call.out = FALSE
    /\ groupServers # {}

\* the call in progress began with the group as the scenario describes it:
\* its members are the two of the beginning and those the call has created
ScenarioStart ==
    \A s \in DOMAIN servers : servers[s].member => s \in ScenarioMembers \cup hist.created

\* C28: in the group with bounds 1:4 and two members, TargetSize reads 2;
\* IncreaseSize(4) returns the bounds error with no create call; an
\* IncreaseSize(2) that starts from the two members returns success only
\* after exactly two create calls and a poll that counted four members,
\* and four members are then listed.
C28_ScenarioOneToFour ==
    /\ (op = "IncreaseSize" /\ size # -1 /\ ScenarioStart) => size = fakeTargetSize
    /\ (op = "IncreaseSize" /\ delta = 4 /\ size = fakeTargetSize /\ pc = "done") =>
          /\ result = ErrTooLarge
          /\ hist.createCalls = 0
          /\ hist.created = {}
    /\ (op = "IncreaseSize" /\ delta = 2 /\ ScenarioStart /\ pc = "done"
          /\ result = Nil) =>
          /\ hist.createCalls = 2
          /\ Cardinality(hist.created) = 2
          /\ hist.pollSize = 4
          /\ TargetSize = 4

\* IncreaseSize(2) has returned success with four members listed
C28_Witness ==
    /\ op = "IncreaseSize"
    /\ delta = 2
    /\ ScenarioStart
    /\ pc = "done"
    /\ result = Nil
    /\ TargetSize = 4

\* IncreaseSize(4) has been refused
C28_WitnessRefused ==
    /\ op = "IncreaseSize"
    /\ delta = 4
    /\ pc = "done"
    /\ result = ErrTooLarge
    /\ ScenarioStart

FatalExit == [kind |-> "fatal", ClusterName |-> <<>>]

Built == call.op = "BuildBrightbox" /\ call.out.kind # "none"

\* the join commands of the environment that have the form
\* kubeadm join <ip:port> --token <token> --discovery-token-ca-cert-hash sha256:<hex>
MatchingJoinCommands == {fakeJoinCommands.good, fakeJoinCommands.spaced}

C29_WitnessBuilt ==
    /\ Built
    /\ call.env.join.value = fakeJoinCommands.spaced
    /\ call.out.kind = "provider"

\* C30: a group that starts with at least minSize members, and loses
\* members only through DeleteNodes, never has fewer than minSize real
\* members, whatever the listing shows in the meantime.
C30_RealMembersNeverBelowMinSize == Cardinality(RealMembers) >= minSize

\* instances that are in the group at the provider, listed or not yet
ScenarioReal == {s \in DOMAIN servers : servers[s].member /\ servers[s].status = "active"}

\* C31: when only IncreaseSize creates instances in the group, the group
\* never holds more than maxSize instances, also after calls that timed
\* out or failed part way and were repeated.
C31_NeverAboveMaxSize == Cardinality(ScenarioReal) <= maxSize

\* the id of the first of the details, in order, that has the status; ""
\* when none has
FirstWith(details, status) ==
    LET at == {k \in DOMAIN details : details[k].status = status}
    IN IF at = {} THEN ""
       ELSE details[CHOOSE k \in at : \A j \in at : k <= j].id

\* first available, else first deprecated, else nothing
FirstUsable(details) ==
    IF FirstWith(details, Available) # "" THEN FirstWith(details, Available)
    ELSE FirstWith(details, Deprecated)

\* C32: for image and server type alike, extraction that scanned every
\* member chooses the first value seen as available, else the first seen
\* as deprecated; a value of another status is never chosen (there is an
\* error when nothing else was seen) and a later value never replaces an
\* earlier one of the same status.
C32_FirstAvailableElseFirstDeprecated ==
    (Extracted /\ AllAnswered(call.answers)) =>
        LET images == [k \in DOMAIN call.answers |-> call.answers[k].Image]
            types == [k \in DOMAIN call.answers |-> call.answers[k].ServerType]
        IN /\ call.out.err = Nil =>
                 /\ call.out.image = FirstUsable(images)
                 /\ call.out.serverType = FirstUsable(types)
           /\ (FirstUsable(images) = "" \/ FirstUsable(types) = "") => call.out.err # Nil

\* two available images: the first is chosen, the later one does not replace it
C32_Witness ==
    /\ Extracted
    /\ Len(call.answers) = 2
    /\ AllAnswered(call.answers)
    /\ call.answers[1].Image = [id |-> "img-b", status |-> Available]
    /\ call.answers[2].Image = [id |-> "img-a", status |-> Available]
    /\ call.answers[1].ServerType = [id |-> "typ-a", status |-> Deprecated]
    /\ call.answers[2].ServerType = [id |-> "typ-b", status |-> Deprecated]
    /\ call.out.err = Nil
    /\ call.out.image = "img-b"
    /\ call.out.serverType = "typ-a"

\* an unavailable type comes first and is passed over for a deprecated one
C32_WitnessOtherStatusSkipped ==
    /\ Extracted
    /\ Len(call.answers) = 2
    /\ AllAnswered(call.answers)
    /\ call.answers[1].ServerType = [id |-> "typ-a", status |-> Unavailable]
    /\ call.answers[2].ServerType = [id |-> "typ-b", status |-> Deprecated]
    /\ call.out.err = Nil
    /\ call.out.serverType = "typ-b"

\* a poll of the wait of IncreaseSize is made in this step
IncPolled == pc = "inc_poll" /\ polls' = polls + 1

\* a poll of the wait of deleteServerFromGroup is made in this step
DelPolled == pc = "del_poll" /\ <<pc, polls, result, i, hist>>' # <<pc, polls, result, i, hist>>

\* C33: a convergence wait ends with success at the first poll whose
\* predicate is true, with the predicate's error at the first poll that
\* errs, and with the timeout error when the last poll of the budget finds
\* the predicate false; otherwise it polls again.  In IncreaseSize a failed
\* size lookup ends the wait with the lookup error.
C33_WaitEndsAtFirstTrueOrError ==
    [][ /\ IncPolled =>
             LET failed == hist'.pollSize = -1
                 reached == ~failed /\ hist'.pollSize >= desiredSize
             IN /\ failed => (pc' = "done" /\ result' = ErrServerGroup)
                /\ reached => (pc' = "done" /\ result' = Nil)
                /\ (~failed /\ ~reached) =>
                      IF polls' >= MaxPolls
                      THEN pc' = "done" /\ result' = ErrWaitTimeout
                      ELSE pc' = "inc_poll" /\ result' = None
        /\ DelPolled =>
             LET missing == isMissing(servers[nodes[i]])
             IN \/ pc' = "done" /\ result' \in {ErrServer, ErrServerNotFound}
                \/ /\ missing
                   /\ i \in hist'.gone
                   /\ \/ pc' = "del_size" /\ i' = i + 1 /\ result' = None
                      \/ pc' = "done" /\ i' = i + 1 /\ result' = Nil
                \/ /\ ~missing
                   /\ IF polls + 1 >= MaxPolls
                      THEN pc' = "done" /\ result' = ErrWaitTimeout
                      ELSE pc' = "del_poll" /\ polls' = polls + 1 /\ result' = None
        /\ (pc = "done" /\ pc' # "done") => pc' = "idle"
      ]_vars

\* the first poll of IncreaseSize fails its size lookup: the wait is over
\* with that error and polls left in the budget
C33_Witness ==
    /\ op = "IncreaseSize"
    /\ pc = "done"
    /\ hist.createCalls > 0
    /\ polls = 1
    /\ polls < MaxPolls
    /\ result = ErrServerGroup

\* every poll of the budget found the server present: timeout
C33_WitnessTimeout ==
    /\ op = "DeleteNodes"
    /\ pc = "done"
    /\ polls = MaxPolls
    /\ result = ErrWaitTimeout

\* errors of the provider's calls
ProviderErrors ==
    {ErrServerGroup, ErrServer, ErrServerNotFound, ErrCreateServer, ErrDestroyServer}

\* a size lookup (GetServerGroup) made in this step failed
SizeLookupFailed ==
    \/ pc \in {"inc_size", "del_size", "dec_size"} /\ pc' # pc /\ size' = -1
    \/ pc = "dec_nodesize" /\ pc' # pc /\ hist'.secondSize = -1

\* C34: no provider mutation is retried.  One IncreaseSize(delta) issues
\* at most delta creates; one DeleteNodes issues at most one destroy per
\* listed instance; a failed create or destroy is the last call of the
\* operation, which returns that error, and so does a failed size lookup.
C34_NoProviderCallRetried ==
    [][ /\ op' = "IncreaseSize" =>
             hist'.createCalls <= (IF delta' > 0 THEN delta' ELSE 0)
        /\ op' = "DeleteNodes" =>
             LET dc == hist'.destroyCalls
             IN \A j, k \in DOMAIN dc :
                   /\ dc[j] \in DOMAIN nodes'
                   /\ j < k => (dc[j] < dc[k] /\ nodes'[dc[j]] # nodes'[dc[k]])
        /\ hist'.createCalls > Cardinality(hist'.created) =>
             /\ hist'.createCalls = Cardinality(hist'.created) + 1
             /\ pc' = "done"
             /\ result' = ErrCreateServer
        /\ Len(hist'.destroyCalls) > Cardinality(hist'.destroyed) =>
             /\ Len(hist'.destroyCalls) = Cardinality(hist'.destroyed) + 1
             /\ pc' = "done"
             /\ result' = ErrDestroyServer
        /\ SizeLookupFailed => (pc' = "done" /\ result' = ErrServerGroup)
        /\ result' \in ProviderErrors => pc' = "done"
        /\ (pc = "done" /\ result \in ProviderErrors) =>
             \/ pc' = "idle"
             \/ UNCHANGED <<pc, result, hist>>
      ]_vars

\* the second create of IncreaseSize(2) fails and is not repeated
C34_Witness ==
    /\ op = "IncreaseSize"
    /\ delta = 2
    /\ pc = "done"
    /\ hist.createCalls = 2
    /\ Cardinality(hist.created) = 1
    /\ result = ErrCreateServer

\* the destroy of the second listed instance fails and is not repeated
C34_WitnessDestroy ==
    /\ op = "DeleteNodes"
    /\ pc = "done"
    /\ hist.destroyCalls = <<1, 2>>
    /\ Cardinality(hist.destroyed) = 1
    /\ result = ErrDestroyServer

BoundsErrors == {ErrPositive, ErrTooLarge, ErrMinSize}

\* positions of the batch for which a destroy was issued
DestroyedPositions == {hist.destroyCalls[k] : k \in DOMAIN hist.destroyCalls}

\* C35 (as claimed): an operation rejected for a bounds violation has made
\* no provider call.
C35_BoundsRejectedBeforeAnyProviderCall ==
    result \in BoundsErrors =>
        /\ pc = "done"
        /\ hist.lookups = {}
        /\ hist.createCalls = 0
        /\ hist.destroyCalls = <<>>

\* C35 (amended): every bounds violation is rejected, and before the
\* provider is changed for it.  A delta <= 0 is rejected before any
\* provider call; a grow beyond maxSize after the size lookup that shows it
\* and before any create; a delete at or below minSize after the size
\* lookup of that iteration and before the lookup and the destroy of that
\* instance, earlier instances of the batch having been dealt with.
C35_BoundsRejectedBeforeTheMutation ==
    /\ (op = "IncreaseSize" /\ delta <= 0) => (pc = "done" /\ result = ErrPositive)
    /\ (op = "IncreaseSize" /\ size # -1 /\ size + delta > maxSize) =>
          (pc = "done" /\ result = ErrTooLarge)
    /\ (op = "DeleteNodes" /\ size # -1 /\ size <= minSize) =>
          (pc = "done" /\ result = ErrMinSize)
    /\ result = ErrPositive =>
          /\ pc = "done"
          /\ hist.lookups = {}
          /\ hist.createCalls = 0
    /\ result = ErrTooLarge =>
          /\ pc = "done"
          /\ size + delta > maxSize
          /\ hist.lookups = {"ServerGroup"}
          /\ hist.createCalls = 0
    /\ result = ErrMinSize =>
          /\ pc = "done"
          /\ size <= minSize
          /\ "ServerGroup" \in hist.lookups
          /\ hist.checkSaw = None
          /\ i \notin DestroyedPositions
          /\ DestroyedPositions = 1..(i - 1)

\* the second instance of a batch is refused at minSize after the first
\* was destroyed
C35_Witness ==
    /\ op = "DeleteNodes"
    /\ pc = "done"
    /\ result = ErrMinSize
    /\ i = 2
    /\ hist.destroyCalls = <<1>>

\* a grow beyond maxSize is refused after the size lookup
C35_WitnessTooLarge ==
    /\ op = "IncreaseSize"
    /\ pc = "done"
    /\ result = ErrTooLarge
    /\ hist.lookups = {"ServerGroup"}
    /\ hist.createCalls = 0

\* a NodeGroupForNode call that ran while Refresh was running
ConcurrentCall == call.op = "NodeGroupForNode" /\ "during" \in DOMAIN call

GroupOpStep == <<op, pc, hist>>' # <<op, pc, hist>>

\* a step of TargetSize, CurrentSize, Nodes or Exist
ReadStep ==
    /\ call' # call
    /\ {call.op, call'.op} \cap {"TargetSize", "CurrentSize", "Nodes", "Exist"} # {}

\* C37: the changes and reads of a node group leave the provider object's
\* node groups and membership index, and the bounds and launch template of
\* the node group, as they are; the two fields of the provider object
\* change only where a Refresh that found no error stores what it built,
\* and the autoscaler gets other bounds and another template only by
\* taking a stored node group.
C37_OnlyRefreshChangesGroupsAndIndex ==
    [][ /\ GroupOpStep => UNCHANGED <<nodeGroups, nodeMap, fields>>
        /\ ReadStep => UNCHANGED <<nodeGroups, nodeMap, fields, provider>>
        /\ nodeGroups' # nodeGroups =>
              (rf.pc = "set nodeGroups" /\ nodeGroups' = rf.nodeGroups)
        /\ nodeMap' # nodeMap =>
              (rf.pc = "set nodeMap" /\ nodeMap' = rf.nodeMap /\ rf'.result = Nil)
        /\ fields' # fields =>
              /\ UNCHANGED <<nodeGroups, nodeMap>>
              /\ \E k \in DOMAIN nodeGroups :
                    fields' = <<nodeGroups[k].minSize, nodeGroups[k].maxSize,
                                nodeGroups[k].serverOptions>>
      ]_vars

\* a server created through the node group is in the group at the provider
\* and NodeGroupForNode, no Refresh having run since, knows no group for it
C37_Witness ==
    /\ call.op = "NodeGroupForNode"
    /\ call.node = 2
    /\ servers[call.node].member
    /\ servers[call.node].status = "active"
    /\ call.node \in groupServers
    /\ call.out = NoNodeGroup
    /\ nodeGroups # <<>>

\* a server destroyed through the node group still has its group in the index
C37_WitnessDeleted ==
    /\ call.op = "NodeGroupForNode"
    /\ servers[call.node].status = "deleted"
    /\ call.node \notin groupServers
    /\ call.out # NoNodeGroup

\* C38: with a provider that answers every call, every IncreaseSize and
\* every DeleteNodes call returns; no wait polls more often than its
\* budget allows, and a wait that used the budget up gives the timeout
\* error as the value the call returns.
C38_EveryCallReturns ==
    /\ [](polls <= MaxPolls)
    /\ [](result = ErrWaitTimeout => (pc = "done" /\ polls = MaxPolls))
    /\ (op \in {"IncreaseSize", "DeleteNodes"}) ~> (pc = "done")

\* IncreaseSize has returned the timeout error after the last poll of the budget
C38_Witness ==
    /\ op = "IncreaseSize"
    /\ pc = "done"
    /\ polls = MaxPolls
    /\ hist.pollSize # -1
    /\ hist.pollSize < desiredSize
    /\ result = ErrWaitTimeout

\* the destroy of the instance at position i was accepted and the lookup of
\* that instance, in the wait that follows, failed
WaitLookupFailed ==
    /\ op = "DeleteNodes"
    /\ i \in DestroyedPositions
    /\ nodes[i] \in hist.destroyed
    /\ result \in {ErrServer, ErrServerNotFound}

\* C39: when the lookup of an instance fails during the wait that follows
\* its accepted destroy, also with "not found" because the instance is
\* gone, DeleteNodes is over with that error: no poll saw the instance
\* gone, no later instance of the batch was looked up or destroyed, and the
\* destroy stays in effect.  A later instance is only dealt with after the
\* waits for all earlier ones ended well.
C39_WaitLookupErrorEndsDeleteNodes ==
    /\ WaitLookupFailed =>
          /\ pc = "done"
          /\ i \notin hist.gone
          /\ DestroyedPositions = 1..i
          /\ servers[nodes[i]].status \in {"deleting", "deleted"}
    /\ op = "DeleteNodes" => \A k \in 1..(i - 1) : k \in hist.gone

\* the first instance of a batch of two is destroyed and gone before the
\* wait looks it up: DeleteNodes returns "not found", the second is untouched
C39_Witness ==
    /\ WaitLookupFailed
    /\ result = ErrServerNotFound
    /\ Len(nodes) = 2
    /\ i = 1
    /\ nodes[1] # nodes[2]
    /\ servers[nodes[1]].status = "deleted"
    /\ servers[nodes[2]].status = "active"

TypeOK ==
    /\ pc \in {"idle", "done", "inc_size", "inc_create", "inc_poll", "del_size",
              "del_check", "del_destroy", "del_poll", "dec_size", "dec_nodesize"}
    /\ groupServers \subseteq ServerIds
====
